---- MODULE Spec2Model ----
(***************************************************************************)
(* Model of the Databricks proxy service                                   *)
(* (src/server/services/databricksService.js): locale resolution, message  *)
(* formatting, payload assembly, response normalisation, error             *)
(* classification and the health probe.                                    *)
(*                                                                         *)
(* JavaScript values are tagged records, so that truthiness (`||`, `!`),   *)
(* optional chaining (`?.`) and property lookup through the prototype      *)
(* chain are computed as the language computes them.                       *)
(***************************************************************************)
EXTENDS Integers, Sequences, FiniteSets, Bags, TLC

VARIABLES
  env,       \* process.env: DATABRICKS_ENDPOINT and DATABRICKS_PAT
  service,   \* the DatabricksService instance, undefined until constructed
  pc,        \* where the one call in progress stands
  call,      \* sendMessage's arguments and locals, up to the POST
  request,   \* the payload handed to this.client.post, until it is sent
  posts,     \* the number of POSTs the call in progress has issued
  response,  \* the response the POST resolved with
  raised,    \* the error the catch block caught
  outcome,   \* the settlement of the promise the call returned
  calls,     \* concurrent calls on the instance: one frame of locals per call
  chatPc,    \* POST /api/chat: where the handler stands
  chatIn,    \* POST /api/chat: the request being handled
  chatOut,   \* POST /api/chat: the response returned
  chatLocals, \* POST /api/chat: finalLocale, finalIntent and responses
  locale,    \* session store: the active locale
  intl,      \* I18nProvider: the locale of the loaded message catalogue
  turns,     \* ChatbotPanel: messages
  isLoading, \* ChatbotPanel: isLoading
  showLanguageSelection,  \* ChatbotPanel: showLanguageSelection
  tasks,     \* ChatbotPanel: awaits and timers that have not yet continued
  lastEvent, \* ChatbotPanel: the handler that ran last
  draft,     \* ChatComposer: the value of the message field
  disabled,  \* ChatComposer: the disabled prop
  showPIIWarning,  \* ChatComposer: showPIIWarning
  timers,    \* ChatComposer: the times at which pending setTimeout callbacks run
  clock,     \* the browser's time, in seconds
  attempts,  \* ChatComposer: the runs of handleSubmit so far
  submitted, \* ChatComposer: the arguments onSubmit was called with, in order
  clears,    \* ChatComposer: the times at which a timer callback has run
  sessionLocales, \* /api/session/locale: the Map from session id to locale
  sessionIn,  \* /api/session/locale: the request last handled
  sessionOut, \* /api/session/locale: the response to it
  posted,     \* /api/session/locale: the POSTs handled, with their responses
  messageList, \* ChatInterface: messages
  showWelcomeCard, \* ChatInterface
  input,      \* ChatInterface: the text in the field
  chatSessions, \* ChatInterface: the conversations of the sidebar
  currentSessionId, \* ChatInterface: 0 for ''
  showPIIBanner, \* ChatInterface
  showToast,  \* ChatInterface: null or the language shown
  running,    \* ChatInterface: the awaits and timers that have not completed
  ids         \* the number of identifiers generateId has given out

\* the one-call-at-a-time model of the service
serviceVars == <<env, service, pc, call, request, posts, response, raised, outcome>>
\* the concurrent calls on the service
callVars == <<calls>>
\* the chat route
routeVars == <<chatPc, chatIn, chatOut, chatLocals>>
\* the session store, the message catalogue and the chat panel
panelVars == <<locale, intl, turns, isLoading, showLanguageSelection, tasks, lastEvent>>
\* the message composer
composerVars ==
  <<draft, disabled, showPIIWarning, timers, clock, attempts, submitted, clears>>

\* the session locale route
sessionVars == <<sessionLocales, sessionIn, sessionOut, posted>>

\* the chat interface; it reads and sets the session store's locale, and its
\* isLoading is the one of whichever chat component is mounted
interfaceVars ==
  <<messageList, showWelcomeCard, input, chatSessions, currentSessionId,
    showPIIBanner, showToast, running, ids>>

\* what each component leaves alone
elsewhere == <<callVars, routeVars, panelVars, composerVars, sessionVars, interfaceVars>>
outsideCalls == <<serviceVars, routeVars, panelVars, composerVars, sessionVars, interfaceVars>>
outsideRoute == <<serviceVars, callVars, panelVars, composerVars, sessionVars, interfaceVars>>
outsidePanel == <<serviceVars, callVars, routeVars, composerVars, sessionVars, interfaceVars>>
outsideComposer == <<serviceVars, callVars, routeVars, panelVars, sessionVars, interfaceVars>>
outsideSession == <<serviceVars, callVars, routeVars, panelVars, composerVars, interfaceVars>>
outsideInterface ==
  <<serviceVars, callVars, routeVars, composerVars, sessionVars,
    intl, turns, showLanguageSelection, tasks, lastEvent>>

vars ==
  <<serviceVars, callVars, routeVars, panelVars, composerVars, sessionVars,
    interfaceVars>>

(***************************************************************************)
(* Bounds of the model.                                                    *)
(***************************************************************************)
\* longest caller-supplied history
MaxHistory == 2
\* number of distinct clock readings for new Date()
MaxTime == 2

(***************************************************************************)
(* JavaScript values.                                                      *)
(***************************************************************************)
Undefined == [t |-> "undefined"]
Null == [t |-> "null"]
Str(s) == [t |-> "string", s |-> s]
Num(n) == [t |-> "number", n |-> n]
Bool(b) == [t |-> "boolean", b |-> b]
\* a string whose characters matter (it is searched, trimmed or matched): the
\* sequence of its characters
Txt(chars) == [t |-> "text", chars |-> chars]
\* a function object, e.g. Object.prototype.toString
Fn(name) == [t |-> "function", name |-> name]
\* an array of JavaScript values
Arr(items) == [t |-> "array", items |-> items]
\* a plain object: a function from its own property names to values
Obj(props) == [t |-> "object", props |-> props]

\* ToBoolean, as used by `||`, `!` and `if`
Truthy(v) ==
  CASE v.t = "undefined" -> FALSE
    [] v.t = "null" -> FALSE
    [] v.t = "string" -> v.s /= ""
    [] v.t = "number" -> v.n /= 0
    [] v.t = "boolean" -> v.b
    [] v.t = "text" -> v.chars /= <<>>
    [] OTHER -> TRUE

\* a || b
Or(a, b) == IF Truthy(a) THEN a ELSE b

Nullish(v) == v.t \in {"undefined", "null"}

\* ToPropertyKey of the values used as keys here
ToPropertyKey(v) ==
  CASE v.t = "string" -> v.s
    [] v.t = "undefined" -> "undefined"
    [] v.t = "null" -> "null"
    [] v.t = "number" -> ToString(v.n)
    [] OTHER -> "[object Object]"

\* String(v), as done by a template literal's ${...}
TemplateString(v) ==
  CASE v.t = "string" -> v.s
    [] v.t = "function" -> "function " \o v.name \o "() { [native code] }"
    [] v.t = "undefined" -> "undefined"
    [] v.t = "null" -> "null"
    [] v.t = "number" -> ToString(v.n)
    [] OTHER -> "[object Object]"

\* the properties every object literal inherits from Object.prototype
ObjectPrototypeKeys ==
  {"constructor", "toString", "valueOf", "hasOwnProperty", "isPrototypeOf",
   "propertyIsEnumerable", "toLocaleString"}

\* the inherited value: Object.prototype.constructor is the function Object
Inherited(key) == IF key = "constructor" THEN Fn("Object") ELSE Fn(key)

\* v === Num(n)
StrictEqNum(v, n) == v.t = "number" /\ v.n = n

\* v === the string s
StrictEqStr(v, s) == v.t = "string" /\ v.s = s

\* v >= n for a number n (undefined compares as NaN: false)
GreaterEqNum(v, n) == v.t = "number" /\ v.n >= n

\* obj?.[key] and obj?.key : undefined on a nullish receiver, otherwise the
\* own property, otherwise what the receiver's kind provides
Get(obj, key) ==
  CASE Nullish(obj) -> Undefined
    [] obj.t = "object" ->
         IF key \in DOMAIN obj.props THEN obj.props[key]
         ELSE IF key \in ObjectPrototypeKeys THEN Inherited(key)
         ELSE Undefined
    [] obj.t = "array" ->
         IF key = "0" /\ Len(obj.items) > 0 THEN obj.items[1] ELSE Undefined
    [] obj.t = "string" ->
         \* the first character: a string that has no property of its own
         IF key = "0" /\ obj.s /= "" THEN Str("?") ELSE Undefined
    [] OTHER -> Undefined

(***************************************************************************)
(* getLanguageInstruction                                                  *)
(***************************************************************************)
Locales == {"en", "es", "ar", "zh", "pt"}

\* the instruction table; the texts are the source's, written in ASCII (the
\* Arabic and Chinese ones stand for the source's strings of those scripts)
instructions ==
  Obj([l \in Locales |->
    CASE l = "en" -> Str("Respond in English with a warm, supportive tone.")
      [] l = "es" -> Str("Responde en espanol con un tono calido y de apoyo. Usa un lenguaje claro y accesible.")
      [] l = "ar" -> Str("(ar) Answer in Arabic with a warm, supportive tone. Use clear, understandable language.")
      [] l = "zh" -> Str("(zh) Answer in Chinese with a warm, supportive tone. Use clear, understandable language.")
      [] l = "pt" -> Str("Responda em portugues com um tom caloroso e de apoio. Use linguagem clara e acessivel.")])

\* a resolver that ignores the language
getLanguageInstructionEnglish(language) == Get(instructions, "en")

getLanguageInstruction(language) ==
  Or(Get(instructions, ToPropertyKey(language)), Get(instructions, "en"))

(***************************************************************************)
(* formatMessages                                                          *)
(***************************************************************************)
Persona ==
  "You are MSK Assistant, a helpful AI assistant for Memorial Sloan Kettering Cancer Center's Young Adult Program. \n\nYour role:\n- Provide information about MSK services, appointments, costs, and young adult cancer support\n- Be warm, supportive, and professional\n- Avoid medical advice - always refer to care teams for medical questions\n- Keep responses concise and actionable\n- Include relevant action buttons when helpful (Call, Schedule, Resources)\n\n"

Guidelines ==
  "\n\nImportant guidelines:\n- Never provide medical diagnoses or treatment advice\n- Always encourage users to contact their care team for medical questions\n- For emergencies, direct to 911 or emergency services\n- Protect user privacy - don't store or request personal information\n- If asked about topics outside MSK services, politely redirect to relevant MSK resources"

\* the template literal of the system message
SystemContent(languageInstruction) ==
  Persona \o TemplateString(languageInstruction) \o Guidelines

\* a formatter without the role filter
PushAnyRole(formatted, msg) ==
  Append(formatted, [role |-> msg.role, content |-> msg.content])

\* a formatter that enforces alternation by skipping a repeated role
PushIfRoleChanges(formatted, msg) ==
  IF (msg.role = "user" \/ msg.role = "assistant")
       /\ formatted[Len(formatted)].role /= msg.role
    THEN Append(formatted, [role |-> msg.role, content |-> msg.content])
    ELSE formatted

\* the body of the forEach callback: push a copy of a user/assistant entry
PushIfConversation(formatted, msg) ==
  IF msg.role = "user" \/ msg.role = "assistant"
    THEN Append(formatted, [role |-> msg.role, content |-> msg.content])
    ELSE formatted

\* messages.forEach(...) over items[i..], in index order
RECURSIVE ForEachPush(_, _, _)
ForEachPush(formatted, items, i) ==
  IF i > Len(items) THEN formatted
  ELSE ForEachPush(PushIfConversation(formatted, items[i]), items, i + 1)

\* an error object: `origin` is the place that created it (object identity)
NewError(name, message, code, resp, origin) ==
  [t |-> "error", name |-> name, message |-> message, code |-> code,
   response |-> resp, origin |-> origin]

\* the result of running a block that may throw
Returned(v) == [threw |-> FALSE, value |-> v]
Threw(e) == [threw |-> TRUE, error |-> e]

formatMessages(messages, languageInstruction) ==
  IF messages.t /= "array"
    THEN Threw(NewError("TypeError", "Cannot read properties of " \o messages.t
                          \o " (reading 'forEach')", Undefined, Undefined, "runtime"))
    ELSE Returned(ForEachPush(
           <<[role |-> "system", content |-> SystemContent(languageInstruction)]>>,
           messages.items, 1))

(***************************************************************************)
(* formatMessages on objects: which object each array slot refers to.      *)
(* `objects` is the store (an object's reference is its index), `messages` *)
(* is the caller's array and `formatted` the array being built, both as    *)
(* lists of references.                                                    *)
(***************************************************************************)
\* the store as the caller has it: entry i of the history is object i
CallerMemory(items) ==
  [objects |-> items, messages |-> [i \in 1..Len(items) |-> i], formatted |-> <<>>]

\* formatted.push({...}) : a new object, and its reference appended
PushNew(mem, obj) ==
  [mem EXCEPT !.objects = Append(@, obj),
              !.formatted = Append(@, Len(mem.objects) + 1)]

\* a callback that pushes the caller's own object: formatted.push(msg)
PushSameObject(mem, ref) ==
  LET msg == mem.objects[ref] IN
  IF msg.role = "user" \/ msg.role = "assistant"
    THEN [mem EXCEPT !.formatted = Append(@, ref)]
    ELSE mem

\* the forEach callback (lines 116-123) on the object `ref` refers to
PushCopy(mem, ref) ==
  LET msg == mem.objects[ref] IN
  IF msg.role = "user" \/ msg.role = "assistant"
    THEN PushNew(mem, [role |-> msg.role, content |-> msg.content])
    ELSE mem

\* messages.forEach(...) from index i on, reading the array as it is then
RECURSIVE ForEachRef(_, _)
ForEachRef(mem, i) ==
  IF i > Len(mem.messages) THEN mem
  ELSE ForEachRef(PushCopy(mem, mem.messages[i]), i + 1)

\* lines 90-126 on the store
formatMessagesInMemory(mem, languageInstruction) ==
  ForEachRef(PushNew(mem, [role |-> "system",
                           content |-> SystemContent(languageInstruction)]), 1)

(***************************************************************************)
(* sendMessage: the try block up to the POST                               *)
(***************************************************************************)
\* max_tokens is a count of tokens; temperature and top_p are counted in
\* tenths, so that the defaults 0.7 and 0.9 are the integers 7 and 9.
DefaultMaxTokens == 1000
DefaultTemperatureTenths == 7
DefaultTopPTenths == 9

\* a default parameter value: used when the argument is undefined
DefaultParam(arg, dflt) == IF arg.t = "undefined" THEN dflt ELSE arg

\* options.<key> || dflt
OptionOr(options, key, dflt) == Or(Get(options, key), Num(dflt))

\* lines 37-43
Payload(formattedMessages, options) ==
  [messages |-> formattedMessages,
   max_tokens |-> OptionOr(options, "maxTokens", DefaultMaxTokens),
   temperature |-> OptionOr(options, "temperature", DefaultTemperatureTenths),
   top_p |-> OptionOr(options, "topP", DefaultTopPTenths),
   stream |-> Bool(FALSE)]

\* lines 31-43: the payload, or what the block threw before the POST
BuildPayload(messages, languageInstruction, options) ==
  LET formatted == formatMessages(messages, languageInstruction) IN
  IF formatted.threw THEN formatted
  ELSE IF Nullish(options)
    THEN Threw(NewError("TypeError", "Cannot read properties of " \o options.t
                          \o " (reading 'maxTokens')", Undefined, Undefined, "runtime"))
  ELSE Returned(Payload(formatted.value, options))

(***************************************************************************)
(* sendMessage: normalisation of the response (lines 53-62)                *)
(***************************************************************************)
ISOString(now) == Str("2025-01-01T00:00:0" \o ToString(now) \o ".000Z")

NoResponseData ==
  NewError("Error", "No response data from Databricks", Undefined, Undefined,
           "sendMessage:54")

\* an extraction chain that prefers the message field to the text
ReplyContentMessageFirst(data) ==
  Or(Or(Get(data, "message"), Get(Get(Get(data, "content"), "0"), "text")),
     Str("No response content"))

\* response.data.content?.[0]?.text || response.data.message || 'No response content'
ReplyContent(data) ==
  Or(Or(Get(Get(Get(data, "content"), "0"), "text"), Get(data, "message")),
     Str("No response content"))

\* a normaliser that reads content[0].text without optional chaining: a
\* TypeError when there is no first element to read it from
NormalizeUnguarded(resp, now) ==
  IF ~Truthy(resp.data) THEN Threw(NoResponseData)
  ELSE IF Nullish(Get(Get(resp.data, "content"), "0"))
    THEN Threw(NewError("TypeError", "Cannot read properties of undefined (reading 'text')",
                        Undefined, Undefined, "runtime"))
  ELSE Returned([content |-> ReplyContent(resp.data),
                 usage |-> Or(Get(resp.data, "usage"), Null),
                 model |-> Or(Get(resp.data, "model"), Str("claude-3-sonnet")),
                 timestamp |-> ISOString(now)])

\* a normaliser without the empty-body test of line 53
NormalizeNoBodyCheck(resp, now) ==
  IF Nullish(resp.data)
    THEN Threw(NewError("TypeError", "Cannot read properties of " \o resp.data.t
                          \o " (reading 'content')", Undefined, Undefined, "runtime"))
  ELSE Returned([content |-> ReplyContent(resp.data),
                 usage |-> Or(Get(resp.data, "usage"), Null),
                 model |-> Or(Get(resp.data, "model"), Str("claude-3-sonnet")),
                 timestamp |-> ISOString(now)])

Normalize(resp, now) ==
  IF ~Truthy(resp.data) THEN Threw(NoResponseData)
  ELSE Returned([content |-> ReplyContent(resp.data),
                 usage |-> Or(Get(resp.data, "usage"), Null),
                 model |-> Or(Get(resp.data, "model"), Str("claude-3-sonnet")),
                 timestamp |-> ISOString(now)])

(***************************************************************************)
(* sendMessage: the catch block (lines 64-84)                              *)
(***************************************************************************)
\* error.response?.status
ErrorStatus(error) ==
  IF Nullish(error.response) THEN Undefined ELSE error.response.status

AuthMessage == "Authentication failed - check your Databricks PAT token"
RateLimitMessage == "Rate limit exceeded - please try again later"
UnavailableMessage == "Databricks service is temporarily unavailable"
TimeoutMessage == "Request timeout - the service took too long to respond"
GenericMessage(error) == "Databricks API error: " \o error.message

Thrown(message, line) ==
  NewError("Error", message, Undefined, Undefined, "sendMessage:" \o line)

\* a catch block that lets the unclassified error through as it is
ClassifyRethrowRaw(error) ==
  IF StrictEqNum(ErrorStatus(error), 401) THEN Thrown(AuthMessage, "74")
  ELSE IF StrictEqNum(ErrorStatus(error), 429) THEN Thrown(RateLimitMessage, "76")
  ELSE IF GreaterEqNum(ErrorStatus(error), 500) THEN Thrown(UnavailableMessage, "78")
  ELSE IF StrictEqStr(error.code, "ECONNABORTED") THEN Thrown(TimeoutMessage, "80")
  ELSE error

\* a catch block whose server-error test is > 500
ClassifyAbove500(error) ==
  IF StrictEqNum(ErrorStatus(error), 401) THEN Thrown(AuthMessage, "74")
  ELSE IF StrictEqNum(ErrorStatus(error), 429) THEN Thrown(RateLimitMessage, "76")
  ELSE IF GreaterEqNum(ErrorStatus(error), 501) THEN Thrown(UnavailableMessage, "78")
  ELSE IF StrictEqStr(error.code, "ECONNABORTED") THEN Thrown(TimeoutMessage, "80")
  ELSE Thrown(GenericMessage(error), "83")

\* a catch block that tests the timeout code before the status
ClassifyTimeoutFirst(error) ==
  IF StrictEqStr(error.code, "ECONNABORTED") THEN Thrown(TimeoutMessage, "80")
  ELSE IF StrictEqNum(ErrorStatus(error), 401) THEN Thrown(AuthMessage, "74")
  ELSE IF StrictEqNum(ErrorStatus(error), 429) THEN Thrown(RateLimitMessage, "76")
  ELSE IF GreaterEqNum(ErrorStatus(error), 500) THEN Thrown(UnavailableMessage, "78")
  ELSE Thrown(GenericMessage(error), "83")

\* the error the catch block throws for the error it caught
Classify(error) ==
  IF StrictEqNum(ErrorStatus(error), 401) THEN Thrown(AuthMessage, "74")
  ELSE IF StrictEqNum(ErrorStatus(error), 429) THEN Thrown(RateLimitMessage, "76")
  ELSE IF GreaterEqNum(ErrorStatus(error), 500) THEN Thrown(UnavailableMessage, "78")
  ELSE IF StrictEqStr(error.code, "ECONNABORTED") THEN Thrown(TimeoutMessage, "80")
  ELSE Thrown(GenericMessage(error), "83")

(***************************************************************************)
(* healthCheck (lines 146-173)                                             *)
(***************************************************************************)
HealthProbe ==
  [messages |-> <<[role |-> "system",
                   content |-> "You are a test assistant. Respond with \"OK\" only."],
                  [role |-> "user", content |-> "Health check"]>>,
   max_tokens |-> Num(10),
   temperature |-> Num(0)]

Healthy(resp, now) ==
  [status |-> "healthy", response |-> Bool(StrictEqNum(resp.status, 200)),
   timestamp |-> ISOString(now)]

\* an unhealthy result that does not carry the error's message
UnhealthyGeneric(error, now) ==
  [status |-> "unhealthy", error |-> "Health check failed", timestamp |-> ISOString(now)]

Unhealthy(error, now) ==
  [status |-> "unhealthy", error |-> error.message, timestamp |-> ISOString(now)]

(***************************************************************************)
(* The inputs: what callers pass and what the transport answers.           *)
(***************************************************************************)
Roles == {"user", "assistant", "system", "tool"}
Contents == {"How do I schedule an appointment?", "Call 212-639-2000."}
Entries == [role : Roles, content : Contents]
Histories == UNION {[1..n -> Entries] : n \in 0..MaxHistory}

MessagesArgs == {Arr(h) : h \in Histories} \cup {Null}

LanguageArgs ==
  {Str(l) : l \in Locales \cup {"", "fr", "EN", "constructor", "toString"}}
    \cup {Null, Undefined}

\* the numbers a caller supplies for a generation parameter: 0 and 5 (five
\* tokens; 0.5 for temperature and top_p, which are in tenths)
SuppliedNumbers == {Num(0), Num(5)}
OptionKeys == {"maxTokens", "temperature", "topP"}
OptionsArgs ==
  {Obj(f) : f \in UNION {[D -> SuppliedNumbers] : D \in SUBSET OptionKeys}}
    \cup {Undefined, Null}

Times == 1..MaxTime

\* response bodies: absent, JSON scalars, and objects with any of the fields
ContentValues ==
  {Arr(<<>>), Str("plain text"), Arr(<<Null>>), Arr(<<Obj(<<>>)>>),
   Arr(<<Obj("text" :> Str(""))>>), Arr(<<Obj("text" :> Str("Hello"))>>),
   Arr(<<Obj("text" :> Num(7))>>)}
MessageValues == {Str(""), Str("Service message"), Obj(<<>>)}
UsageValues == {Obj("total_tokens" :> Num(12))}
ModelValues == {Str(""), Str("x")}

FieldValues(key) ==
  CASE key = "content" -> ContentValues
    [] key = "message" -> MessageValues
    [] key = "usage" -> UsageValues
    [] key = "model" -> ModelValues

BodyKeys == {"content", "message", "usage", "model"}
ObjectBodies ==
  {Obj(f) : f \in UNION {{g \in [D -> UNION {FieldValues(k) : k \in D}] :
                            \A k \in D : g[k] \in FieldValues(k)} :
                         D \in SUBSET BodyKeys}}
ScalarBodies == {Undefined, Null, Str(""), Num(0), Bool(FALSE), Str("OK")}

Responses ==
  [t : {"response"}, status : {Num(200), Num(204)},
   data : ObjectBodies \cup ScalarBodies]

ErrorStatuses == {400, 401, 403, 404, 429, 500, 503}
ErrorResponses ==
  {Undefined} \cup
  {[t |-> "response", status |-> Num(n), data |-> Undefined] : n \in ErrorStatuses}
ErrorCodes == {Undefined, Str("ECONNABORTED"), Str("ECONNREFUSED")}
ErrorMessages == {"Network Error", "timeout of 30000ms exceeded"}

\* what this.client.post rejects with
TransportErrors ==
  {NewError("AxiosError", m, c, r, "transport") :
     m \in ErrorMessages, c \in ErrorCodes, r \in ErrorResponses}

(***************************************************************************)
(* The state machine: one call at a time on one service instance.          *)
(***************************************************************************)
Pending == [state |-> "pending"]
Fulfilled(op, v) == [state |-> "fulfilled", op |-> op, value |-> v]
Rejected(op, e) == [state |-> "rejected", op |-> op, reason |-> e]

\* the values an environment variable can have: unset, empty, set
EndpointValues ==
  {Undefined, Str(""), Str("https://dbc.example.com/serving-endpoints/claude/invocations")}
PatValues == {Undefined, Str(""), Str("dapi-token")}
Environments == [DATABRICKS_ENDPOINT : EndpointValues, DATABRICKS_PAT : PatValues]

ConfigMessage ==
  "DATABRICKS_ENDPOINT and DATABRICKS_PAT must be set in environment variables"

\* the timeout of the axios instance, in milliseconds
ClientTimeout == 30000

\* a constructor that validates the endpoint only
ConstructEndpointOnly(environment) ==
  LET endpoint == environment.DATABRICKS_ENDPOINT
      pat == environment.DATABRICKS_PAT
  IN IF ~Truthy(endpoint)
       THEN Threw(NewError("Error", ConfigMessage, Undefined, Undefined, "constructor:9"))
       ELSE Returned([t |-> "DatabricksService", endpoint |-> endpoint, pat |-> pat,
                      client |-> [baseURL |-> endpoint, timeout |-> ClientTimeout,
                                  Authorization |-> "Bearer " \o TemplateString(pat),
                                  ContentType |-> "application/json"]])

\* lines 4-21: the instance, or the error the constructor throws
Construct(environment) ==
  LET endpoint == environment.DATABRICKS_ENDPOINT
      pat == environment.DATABRICKS_PAT
  IN IF ~Truthy(endpoint) \/ ~Truthy(pat)
       THEN Threw(NewError("Error", ConfigMessage, Undefined, Undefined, "constructor:9"))
       ELSE Returned([t |-> "DatabricksService", endpoint |-> endpoint, pat |-> pat,
                      client |-> [baseURL |-> endpoint, timeout |-> ClientTimeout,
                                  Authorization |-> "Bearer " \o TemplateString(pat),
                                  ContentType |-> "application/json"]])

(***************************************************************************)
(* Concurrent calls: every call of sendMessage or healthCheck has its own  *)
(* frame of locals (payload, response, error); the instance is shared.     *)
(***************************************************************************)
\* number of calls that can be in flight at once
MaxCalls == 2
CallIds == 1..MaxCalls

\* a frame: the call's arguments, the request it put on the wire, what its
\* POST settled with, the clock reading it took and its settlement
NoFrame ==
  [pc |-> "idle", op |-> "none", args |-> Undefined, wire |-> Undefined,
   reply |-> Undefined, now |-> 0, outcome |-> Pending]
NoCalls == [i \in CallIds |-> NoFrame]

\* the chat route with no request in hand
RouteIdle ==
  /\ chatPc = "idle"
  /\ chatIn = Undefined
  /\ chatOut = Undefined
  /\ chatLocals = Undefined

\* the session locale route as loaded: an empty Map, no request handled
SessionIdle ==
  /\ sessionLocales = <<>>
  /\ sessionIn = Undefined
  /\ sessionOut = Undefined
  /\ posted = <<>>

\* the chat interface before it is mounted
InterfaceUnmounted ==
  /\ messageList = <<>>
  /\ showWelcomeCard = TRUE
  /\ input = <<>>
  /\ chatSessions = <<>>
  /\ currentSessionId = 0
  /\ showPIIBanner = FALSE
  /\ showToast = Null
  /\ running = EmptyBag
  /\ ids = 0

\* the browser before the panel is mounted, on a fresh session
NoEvent == [kind |-> "none", locale |-> "none"]
PanelUnmounted ==
  /\ locale = "en"
  /\ intl = "en"
  /\ turns = <<>>
  /\ isLoading = FALSE
  /\ showLanguageSelection = TRUE
  /\ tasks = {}
  /\ lastEvent = NoEvent

\* the composer as first rendered: an empty field, no warning, no timer
ComposerUnmounted ==
  /\ draft = <<>>
  /\ disabled = FALSE
  /\ showPIIWarning = FALSE
  /\ timers = {}
  /\ clock = 0
  /\ attempts = <<>>
  /\ submitted = <<>>
  /\ clears = {}

Init ==
  /\ env \in Environments
  /\ service = Undefined
  /\ pc = "new"
  /\ posts = 0
  /\ call = Undefined
  /\ request = Undefined
  /\ response = Undefined
  /\ raised = Undefined
  /\ outcome = Pending
  /\ calls = NoCalls
  /\ RouteIdle
  /\ SessionIdle
  /\ InterfaceUnmounted
  /\ PanelUnmounted
  /\ ComposerUnmounted

\* new DatabricksService(): lines 4-21
constructor ==
  /\ pc = "new"
  /\ LET built == Construct(env)
     IN IF built.threw
          THEN /\ pc' = "failed"
               /\ outcome' = [state |-> "threw", op |-> "constructor",
                              reason |-> built.error]
               /\ UNCHANGED service
          ELSE /\ pc' = "idle"
               /\ service' = built.value
               /\ UNCHANGED outcome
  /\ UNCHANGED <<env, call, request, posts, response, raised>>
  /\ UNCHANGED elsewhere

\* the catch block: remember the caught error, reject with its classification
Catch(error) ==
  /\ raised' = error
  /\ outcome' = Rejected("sendMessage", Classify(error))
  /\ pc' = "settled"

\* lines 29-51: from the call to the POST (or to the catch block)
sendMessage ==
  /\ pc = "idle"
  /\ \E messages \in MessagesArgs, languageArg \in LanguageArgs,
        optionsArg \in OptionsArgs :
       LET language == DefaultParam(languageArg, Str("en"))
           options == DefaultParam(optionsArg, Obj(<<>>))
           languageInstruction == getLanguageInstruction(language)
           built == BuildPayload(messages, languageInstruction, options)
       IN IF built.threw
            THEN /\ Catch(built.error)
                 /\ UNCHANGED <<env, service, call, request, posts, response>>
            ELSE /\ call' = [messages |-> messages, language |-> language,
                             options |-> options,
                             languageInstruction |-> languageInstruction,
                             memory |-> formatMessagesInMemory(
                                          CallerMemory(messages.items),
                                          languageInstruction)]
                 /\ request' = built.value
                 /\ pc' = "sendMessage:post"
                 /\ UNCHANGED <<env, service, posts, response, raised, outcome>>
  /\ UNCHANGED elsewhere

\* this.client.post: the request leaves; the call's locals are not read again
clientPost ==
  /\ pc \in {"sendMessage:post", "healthCheck:post"}
  /\ pc' = IF pc = "sendMessage:post" THEN "sendMessage:await" ELSE "healthCheck:await"
  /\ call' = Undefined
  /\ request' = Undefined
  /\ posts' = posts + 1
  /\ UNCHANGED <<env, service, response, raised, outcome>>
  /\ UNCHANGED elsewhere

\* lines 51-62: the POST resolved
sendMessageResolved ==
  /\ pc = "sendMessage:await"
  /\ \E resp \in Responses, now \in Times :
       /\ response' = resp
       /\ LET reply == Normalize(resp, now)
          IN IF reply.threw
               THEN Catch(reply.error)
               ELSE /\ outcome' = Fulfilled("sendMessage", reply.value)
                    /\ pc' = "settled"
                    /\ UNCHANGED raised
  /\ UNCHANGED <<env, service, call, request, posts>>
  /\ UNCHANGED elsewhere

\* a catch block that POSTs once more after a failed POST
sendMessageRetry ==
  /\ pc = "sendMessage:await"
  /\ IF posts < 2
       THEN /\ pc' = "sendMessage:post"
            /\ UNCHANGED <<raised, outcome>>
       ELSE \E error \in TransportErrors : Catch(error)
  /\ UNCHANGED <<env, service, call, request, posts, response>>
  /\ UNCHANGED elsewhere

\* lines 64-84: the POST rejected
sendMessageRejected ==
  /\ pc = "sendMessage:await"
  /\ \E error \in TransportErrors : Catch(error)
  /\ UNCHANGED <<env, service, call, request, posts, response>>
  /\ UNCHANGED elsewhere

\* lines 147-160
healthCheck ==
  /\ pc = "idle"
  /\ request' = HealthProbe
  /\ pc' = "healthCheck:post"
  /\ UNCHANGED <<env, service, call, posts, response, raised, outcome>>
  /\ UNCHANGED elsewhere

\* lines 160-165
healthCheckResolved ==
  /\ pc = "healthCheck:await"
  /\ \E resp \in Responses, now \in Times :
       /\ response' = resp
       /\ outcome' = Fulfilled("healthCheck", Healthy(resp, now))
  /\ pc' = "settled"
  /\ UNCHANGED <<env, service, call, request, posts, raised>>
  /\ UNCHANGED elsewhere

\* a health check without its try/catch: the error reaches the caller
healthCheckRethrow ==
  /\ pc = "healthCheck:await"
  /\ \E error \in TransportErrors :
       /\ raised' = error
       /\ outcome' = Rejected("healthCheck", error)
  /\ pc' = "settled"
  /\ UNCHANGED <<env, service, call, request, posts, response>>
  /\ UNCHANGED elsewhere

\* lines 166-172
healthCheckRejected ==
  /\ pc = "healthCheck:await"
  /\ \E error \in TransportErrors, now \in Times :
       /\ raised' = error
       /\ outcome' = Fulfilled("healthCheck", Unhealthy(error, now))
  /\ pc' = "settled"
  /\ UNCHANGED <<env, service, call, request, posts, response>>
  /\ UNCHANGED elsewhere

\* the caller takes the settlement; the instance is ready for the next call
Settle ==
  /\ pc = "settled"
  /\ pc' = "idle"
  /\ call' = Undefined
  /\ request' = Undefined
  /\ response' = Undefined
  /\ raised' = Undefined
  /\ outcome' = Pending
  /\ posts' = 0
  /\ UNCHANGED <<env, service>>
  /\ UNCHANGED elsewhere

Next ==
  \/ constructor
  \/ sendMessage
  \/ clientPost
  \/ sendMessageResolved
  \/ sendMessageRejected
  \/ healthCheck
  \/ healthCheckResolved
  \/ healthCheckRejected
  \/ Settle

Spec == Init /\ [][Next]_vars

(***************************************************************************)
(* The state machine of concurrent calls.  A call runs without             *)
(* interruption up to its await (lines 51 and 148) and again from the      *)
(* settlement of its POST to its own settlement; calls interleave at the   *)
(* awaits only.                                                            *)
(***************************************************************************)
ConcurrentMessages ==
  {Arr(<<[role |-> "user", content |-> "Call 212-639-2000."]>>), Null}
ConcurrentLanguages == {Undefined, Str("es")}
ConcurrentOptions == {Undefined, Obj("temperature" :> Num(5))}
ConcurrentArgs ==
  [messages : ConcurrentMessages, language : ConcurrentLanguages,
   options : ConcurrentOptions]
ConcurrentResponses ==
  [t : {"response"}, status : {Num(200)},
   data : {Undefined, Obj("content" :> Arr(<<Obj("text" :> Str("Hello"))>>))}]
ConcurrentErrors ==
  {NewError("AxiosError", "timeout of 30000ms exceeded", Str("ECONNABORTED"),
            Undefined, "transport"),
   NewError("AxiosError", "Network Error", Undefined,
            [t |-> "response", status |-> Num(429), data |-> Undefined], "transport")}

\* this.client.post('', payload): the request the shared axios instance sends
ClientPost(instance, payload) ==
  [url |-> instance.client.baseURL, timeout |-> instance.client.timeout,
   Authorization |-> instance.client.Authorization,
   ContentType |-> instance.client.ContentType, data |-> payload]

InitConcurrent ==
  /\ env \in {e \in Environments : ~Construct(e).threw}
  /\ service = Construct(env).value
  /\ pc = "idle"
  /\ posts = 0
  /\ call = Undefined
  /\ request = Undefined
  /\ response = Undefined
  /\ raised = Undefined
  /\ outcome = Pending
  /\ calls = NoCalls
  /\ RouteIdle
  /\ SessionIdle
  /\ InterfaceUnmounted
  /\ PanelUnmounted
  /\ ComposerUnmounted

\* lines 29-51 in call i, with the payload kept on the instance between
\* building it and posting it
sendMessageOnInstance(i) ==
  /\ calls[i].pc = "idle"
  /\ \E args \in ConcurrentArgs :
       LET language == DefaultParam(args.language, Str("en"))
           options == DefaultParam(args.options, Obj(<<>>))
           built == BuildPayload(args.messages, getLanguageInstruction(language),
                                 options)
       IN IF built.threw
            THEN /\ calls' = [calls EXCEPT ![i] =
                     [pc |-> "settled", op |-> "sendMessage", args |-> args,
                      wire |-> Undefined, reply |-> built.error, now |-> 0,
                      outcome |-> Rejected("sendMessage", Classify(built.error))]]
                 /\ UNCHANGED service
            ELSE /\ service' = [t |-> "DatabricksService", endpoint |-> service.endpoint,
                                pat |-> service.pat, client |-> service.client,
                                payload |-> built.value]
                 /\ calls' = [calls EXCEPT ![i] =
                     [pc |-> "sendMessage:await", op |-> "sendMessage", args |-> args,
                      wire |-> ClientPost(service', service'.payload),
                      reply |-> Undefined, now |-> 0, outcome |-> Pending]]
  /\ UNCHANGED <<env, pc, call, request, posts, response, raised, outcome, routeVars, panelVars,
               composerVars, sessionVars, interfaceVars>>

\* lines 29-51 in call i: from the call to the await of its POST
sendMessageCall(i) ==
  /\ calls[i].pc = "idle"
  /\ \E args \in ConcurrentArgs :
       LET language == DefaultParam(args.language, Str("en"))
           options == DefaultParam(args.options, Obj(<<>>))
           built == BuildPayload(args.messages, getLanguageInstruction(language),
                                 options)
       IN calls' = [calls EXCEPT ![i] =
            IF built.threw
              THEN [pc |-> "settled", op |-> "sendMessage", args |-> args,
                    wire |-> Undefined, reply |-> built.error, now |-> 0,
                    outcome |-> Rejected("sendMessage", Classify(built.error))]
              ELSE [pc |-> "sendMessage:await", op |-> "sendMessage", args |-> args,
                    wire |-> ClientPost(service, built.value),
                    reply |-> Undefined, now |-> 0, outcome |-> Pending]]
  /\ UNCHANGED outsideCalls

\* lines 51-62 in call i: its POST resolved
sendMessageCallResolved(i) ==
  /\ calls[i].pc = "sendMessage:await"
  /\ \E resp \in ConcurrentResponses, now \in Times :
       LET reply == Normalize(resp, now)
       IN calls' = [calls EXCEPT ![i] =
            [@ EXCEPT !.pc = "settled", !.reply = resp, !.now = now,
                      !.outcome = IF reply.threw
                                    THEN Rejected("sendMessage", Classify(reply.error))
                                    ELSE Fulfilled("sendMessage", reply.value)]]
  /\ UNCHANGED outsideCalls

\* lines 64-84 in call i: its POST rejected
sendMessageCallRejected(i) ==
  /\ calls[i].pc = "sendMessage:await"
  /\ \E error \in ConcurrentErrors :
       calls' = [calls EXCEPT ![i] =
         [@ EXCEPT !.pc = "settled", !.reply = error,
                   !.outcome = Rejected("sendMessage", Classify(error))]]
  /\ UNCHANGED outsideCalls

\* lines 147-160 in call i
healthCheckCall(i) ==
  /\ calls[i].pc = "idle"
  /\ calls' = [calls EXCEPT ![i] =
       [pc |-> "healthCheck:await", op |-> "healthCheck", args |-> Undefined,
        wire |-> ClientPost(service, HealthProbe), reply |-> Undefined, now |-> 0,
        outcome |-> Pending]]
  /\ UNCHANGED outsideCalls

\* lines 160-165 in call i
healthCheckCallResolved(i) ==
  /\ calls[i].pc = "healthCheck:await"
  /\ \E resp \in ConcurrentResponses, now \in Times :
       calls' = [calls EXCEPT ![i] =
         [@ EXCEPT !.pc = "settled", !.reply = resp, !.now = now,
                   !.outcome = Fulfilled("healthCheck", Healthy(resp, now))]]
  /\ UNCHANGED outsideCalls

\* lines 166-172 in call i
healthCheckCallRejected(i) ==
  /\ calls[i].pc = "healthCheck:await"
  /\ \E error \in ConcurrentErrors, now \in Times :
       calls' = [calls EXCEPT ![i] =
         [@ EXCEPT !.pc = "settled", !.reply = error, !.now = now,
                   !.outcome = Fulfilled("healthCheck", Unhealthy(error, now))]]
  /\ UNCHANGED outsideCalls

\* the caller of call i takes the settlement; the frame is gone
callReturns(i) ==
  /\ calls[i].pc = "settled"
  /\ calls' = [calls EXCEPT ![i] = NoFrame]
  /\ UNCHANGED outsideCalls

NextConcurrent ==
  \/ \E i \in CallIds : sendMessageCall(i)
  \/ \E i \in CallIds : sendMessageCallResolved(i)
  \/ \E i \in CallIds : sendMessageCallRejected(i)
  \/ \E i \in CallIds : healthCheckCall(i)
  \/ \E i \in CallIds : healthCheckCallResolved(i)
  \/ \E i \in CallIds : healthCheckCallRejected(i)
  \/ \E i \in CallIds : callReturns(i)

SpecConcurrent == InitConcurrent /\ [][NextConcurrent]_vars

(***************************************************************************)
(* Properties.                                                             *)
(***************************************************************************)
\* sendMessage has built its payload and is about to POST it
Posting == pc = "sendMessage:post"

\* sendMessage has settled
SendSettled == pc = "settled" /\ outcome.op = "sendMessage"
SendRejected == SendSettled /\ outcome.state = "rejected"
SendFulfilled == SendSettled /\ outcome.state = "fulfilled"

\* the instruction the table holds for a supported code, English otherwise
TableInstruction(language) ==
  IF language.t = "string" /\ language.s \in Locales
    THEN instructions.props[language.s]
    ELSE instructions.props["en"]

\* C1: locale resolution is total: a supported code yields its own fixed
\* instruction, every other input (empty, null, unknown, or the name of an
\* inherited property such as 'constructor') yields the English instruction,
\* so only one of the five instructions reaches the formatter.
C1_LocaleResolutionTotal ==
  Posting =>
    /\ call.languageInstruction = TableInstruction(call.language)
    /\ request.messages[1].content =
         Persona \o TableInstruction(call.language).s \o Guidelines

IsConversation(msg) == msg.role \in {"user", "assistant"}

\* C2: the formatted list starts with the only system entry, and the rest is
\* exactly the user/assistant subsequence of the history, in order and with
\* the original content; its length is 1 + the number of such entries, and
\* filtering the tail again changes nothing.
C2_FormatIsFilteredHistory ==
  Posting =>
    LET out == request.messages
        history == call.messages.items
    IN /\ Len(out) >= 1
       /\ out[1].role = "system"
       /\ \A i \in 2..Len(out) : out[i].role /= "system"
       /\ Tail(out) = SelectSeq(history, IsConversation)
       /\ Len(out) = 1 + Cardinality({i \in 1..Len(history) : IsConversation(history[i])})
       /\ SelectSeq(Tail(out), IsConversation) = Tail(out)

\* C2 witness: a history of which one entry is dropped and one is forwarded
C2_Witness ==
  /\ Posting
  /\ Len(call.messages.items) = 2
  /\ Len(request.messages) = 2
  /\ call.messages.items[1].role = "system"

ClassifiedMessages(error) ==
  {AuthMessage, RateLimitMessage, UnavailableMessage, TimeoutMessage,
   GenericMessage(error)}

ThrowSites ==
  {"sendMessage:74", "sendMessage:76", "sendMessage:78", "sendMessage:80",
   "sendMessage:83"}

\* C3: whenever sendMessage rejects, the rejection is one of the five
\* classified errors, created by the catch block, and never the error object
\* that was caught (from the transport, the runtime or the empty-body check).
C3_RejectionIsClassified ==
  SendRejected =>
    /\ outcome.reason.origin \in ThrowSites
    /\ outcome.reason.origin /= raised.origin
    /\ outcome.reason.name = "Error"
    /\ outcome.reason.message \in ClassifiedMessages(raised)
    /\ Nullish(outcome.reason.response) /\ Nullish(outcome.reason.code)

\* C3 witness: a network failure without status or timeout code was caught
C3_Witness ==
  /\ SendRejected
  /\ raised.origin = "transport"
  /\ Nullish(raised.response)
  /\ raised.code = Str("ECONNREFUSED")

\* the HTTP status of the caught error, 0 when it carries none
RaisedStatus ==
  IF Nullish(raised.response) THEN 0 ELSE raised.response.status.n
RaisedTimeout == raised.code.t = "string" /\ raised.code.s = "ECONNABORTED"

\* C4 as stated: first match of 401, 429, >= 500, then a timeout code with no
\* status, and the generic error for every other failure.
C4_ClassificationAsStated ==
  SendRejected =>
    outcome.reason.message =
      CASE RaisedStatus = 401 -> AuthMessage
        [] RaisedStatus = 429 -> RateLimitMessage
        [] RaisedStatus >= 500 -> UnavailableMessage
        [] RaisedStatus = 0 /\ RaisedTimeout -> TimeoutMessage
        [] OTHER -> GenericMessage(raised)

\* C4 amended: first match of 401, 429, >= 500, then a timeout code with no
\* status or with any other status (400, 403, 404), and the generic error for
\* every failure that has none of these.
C4_Classification ==
  SendRejected =>
    outcome.reason.message =
      CASE RaisedStatus = 401 -> AuthMessage
        [] RaisedStatus = 429 -> RateLimitMessage
        [] RaisedStatus >= 500 -> UnavailableMessage
        [] RaisedStatus \notin {401, 429} /\ RaisedStatus < 500 /\ RaisedTimeout
             -> TimeoutMessage
        [] OTHER -> GenericMessage(raised)

\* C4 witness: a server error exactly at the 500 boundary was classified
C4_Witness ==
  /\ SendRejected
  /\ RaisedStatus = 500
  /\ outcome.reason.message = UnavailableMessage

\* C5 as stated: the timeout check precedes the status check, so an error with
\* the timeout code and a status of 401, 429 or >= 500 is the timeout error.
C5_TimeoutPrecedesStatus ==
  (SendRejected /\ RaisedTimeout
     /\ (RaisedStatus \in {401, 429} \/ RaisedStatus >= 500))
    => outcome.reason.message = TimeoutMessage

\* C5 amended: the status check precedes the timeout check, so an error with
\* the timeout code and a status of 401, 429 or >= 500 is classified by its
\* status, and the timeout error is given only when no such status is there.
C5_StatusPrecedesTimeout ==
  /\ (SendRejected /\ RaisedTimeout /\ RaisedStatus = 401)
       => outcome.reason.message = AuthMessage
  /\ (SendRejected /\ RaisedTimeout /\ RaisedStatus = 429)
       => outcome.reason.message = RateLimitMessage
  /\ (SendRejected /\ RaisedTimeout /\ RaisedStatus >= 500)
       => outcome.reason.message = UnavailableMessage
  /\ (SendRejected /\ outcome.reason.message = TimeoutMessage)
       => RaisedTimeout /\ RaisedStatus \notin {401, 429} /\ RaisedStatus < 500

\* C5 witness: an error with both the timeout code and status 503 was caught
C5_Witness ==
  /\ SendRejected
  /\ RaisedTimeout
  /\ RaisedStatus = 503
  /\ outcome.reason.message = UnavailableMessage

HealthSettled == pc = "settled" /\ outcome.op = "healthCheck"

\* C6: healthCheck never rejects: whatever the transport does (resolve with
\* any status, reject with any error, time out), it resolves to an object
\* whose status is exactly 'healthy' or 'unhealthy' and which has a timestamp.
C6_HealthCheckNeverRejects ==
  HealthSettled =>
    /\ outcome.state = "fulfilled"
    /\ outcome.value.status \in {"healthy", "unhealthy"}
    /\ outcome.value.timestamp \in {ISOString(now) : now \in Times}

\* C6 witness: the probe timed out and the call resolved all the same
C6_Witness ==
  /\ HealthSettled
  /\ outcome.state = "fulfilled"
  /\ outcome.value.status = "unhealthy"
  /\ raised.t = "error"
  /\ raised.origin = "transport"
  /\ RaisedTimeout

\* the POST of a sendMessage call resolved, and the call has settled
PostResolved == SendSettled /\ response.t = "response"

\* no body at all: undefined, null, or a body of length zero
BodyAbsent(data) == Nullish(data) \/ (data.t = "string" /\ data.s = "")

\* the falsy values: undefined, null, '', 0, false
Falsy(v) ==
  \/ v.t \in {"undefined", "null"}
  \/ v.t = "string" /\ v.s = ""
  \/ v.t = "number" /\ v.n = 0
  \/ v.t = "boolean" /\ v.b = FALSE

\* the first element's text and the message field of a body, undefined when
\* the body has none
FirstText(data) == Get(Get(Get(data, "content"), "0"), "text")
MessageField(data) == Get(data, "message")
StringOrMissing(v) == v.t \in {"string", "undefined"}

Field(data, key) ==
  IF data.t = "object" /\ key \in DOMAIN data.props THEN data.props[key]
  ELSE Undefined
Present(v) == v.t /= "undefined"

\* C8 as stated: content is the first element's text if there is one, else
\* the message field, else "No response content"; usage is the body's usage
\* when present, else null; model is the body's model when present, else the
\* fallback identifier.
C8_PriorityChainAsStated ==
  SendFulfilled =>
    LET data == response.data IN
    /\ outcome.value.content =
         IF Present(FirstText(data)) THEN FirstText(data)
         ELSE IF Present(Field(data, "message")) THEN Field(data, "message")
         ELSE Str("No response content")
    /\ outcome.value.usage =
         IF Present(Field(data, "usage")) THEN Field(data, "usage") ELSE Null
    /\ outcome.value.model =
         IF Present(Field(data, "model")) THEN Field(data, "model")
         ELSE Str("claude-3-sonnet")

\* C8 amended: content is the first element's text if that is truthy (not
\* missing, not ''), else the message field if that is truthy, else
\* "No response content"; usage is the body's usage when truthy, else null;
\* model is the body's model when truthy (not ''), else the fallback.
C8_PriorityChain ==
  SendFulfilled =>
    LET data == response.data IN
    /\ outcome.value.content =
         IF ~Falsy(FirstText(data)) THEN FirstText(data)
         ELSE IF ~Falsy(Field(data, "message")) THEN Field(data, "message")
         ELSE Str("No response content")
    /\ outcome.value.usage =
         IF ~Falsy(Field(data, "usage")) THEN Field(data, "usage") ELSE Null
    /\ outcome.value.model =
         IF ~Falsy(Field(data, "model")) THEN Field(data, "model")
         ELSE Str("claude-3-sonnet")

\* C8 witness: the body {content: [{text: "Hello"}], message: ..., model: "x"}
\* gave content "Hello" and model "x"
C8_Witness ==
  /\ SendFulfilled
  /\ response.data.t = "object"
  /\ DOMAIN response.data.props = {"content", "message", "model"}
  /\ outcome.value.content = Str("Hello")
  /\ outcome.value.model = Str("x")
  /\ outcome.value.usage = Null

\* no two neighbours of a list have the same role
Alternates(list) == \A i \in 1..(Len(list) - 1) : list[i].role /= list[i + 1].role

\* C9 as stated: in every posted payload the messages after the system
\* message alternate between user and assistant, for every history.
C9_ForwardedAlternate ==
  Posting => Alternates(Tail(request.messages))

\* C9 amended: the messages after the system message alternate exactly when
\* the user/assistant entries of the caller's history, taken in order, do:
\* the formatter neither merges nor drops same-role neighbours.
C9_AlternateIffHistoryDoes ==
  Posting =>
    (Alternates(Tail(request.messages))
       <=> Alternates(SelectSeq(call.messages.items, IsConversation)))

\* C9 witness: an alternating user, assistant history was forwarded as it is
C9_Witness ==
  /\ Posting
  /\ Len(request.messages) = 3
  /\ request.messages[2].role = "user"
  /\ request.messages[3].role = "assistant"
  /\ Alternates(Tail(request.messages))

\* the payload field a generation option sets, and its default
PayloadField(key) ==
  CASE key = "maxTokens" -> request.max_tokens
    [] key = "temperature" -> request.temperature
    [] key = "topP" -> request.top_p
OptionDefault(key) ==
  CASE key = "maxTokens" -> Num(DefaultMaxTokens)
    [] key = "temperature" -> Num(DefaultTemperatureTenths)
    [] key = "topP" -> Num(DefaultTopPTenths)

\* C10: for each generation option the payload carries the value the caller
\* supplied, for every supplied number >= 0, and the default (1000, 0.7, 0.9)
\* only when the caller omitted the option.
C10_OptionsCarried ==
  Posting =>
    \A key \in OptionKeys :
      PayloadField(key) =
        IF key \in DOMAIN call.options.props THEN call.options.props[key]
        ELSE OptionDefault(key)

(***************************************************************************)
(* Construction, POST count.                                               *)
(***************************************************************************)
AbsentOrEmpty(v) == v.t = "undefined" \/ (v.t = "string" /\ v.s = "")
NonEmptyString(v) == v.t = "string" /\ v.s /= ""
Constructed == service.t = "DatabricksService"

\* C11: construction fails at once with the configuration error whenever the
\* endpoint or the credential is absent or empty, so no instance exists and
\* no POST is ever issued without both; with both non-empty it succeeds, and
\* no later call raises the configuration error again.
C11_ConstructionFailsFast ==
  /\ pc /= "new" =>
       (pc = "failed" <=> (AbsentOrEmpty(env.DATABRICKS_ENDPOINT)
                             \/ AbsentOrEmpty(env.DATABRICKS_PAT)))
  /\ pc = "failed" =>
       /\ ~Constructed
       /\ outcome.op = "constructor"
       /\ outcome.reason.message = ConfigMessage
  /\ Constructed <=> pc \notin {"new", "failed"}
  /\ Constructed =>
       /\ NonEmptyString(service.endpoint) /\ service.endpoint = env.DATABRICKS_ENDPOINT
       /\ NonEmptyString(service.pat) /\ service.pat = env.DATABRICKS_PAT
  /\ (posts > 0 \/ request /= Undefined) => Constructed
  /\ (pc = "settled" /\ outcome.state = "rejected")
       => outcome.reason.message /= ConfigMessage

\* C11 witness: the endpoint is set, the credential is the empty string, and
\* the constructor threw
C11_Witness ==
  /\ pc = "failed"
  /\ NonEmptyString(env.DATABRICKS_ENDPOINT)
  /\ env.DATABRICKS_PAT = Str("")
  /\ ~Constructed

\* C12: no retries: a sendMessage or healthCheck call issues at most one
\* POST, and a call whose POST failed settles without another POST.
C12_NoRetries ==
  /\ posts <= 1
  /\ pc \in {"sendMessage:await", "healthCheck:await"} => posts = 1
  /\ (pc = "settled" /\ raised.t = "error" /\ raised.origin = "transport")
       => posts = 1
  /\ (pc = "settled" /\ response.t = "response") => posts = 1

\* C12 witness: a POST answered with status 429 and the call settled after
\* that one POST
C12_Witness ==
  /\ SendRejected
  /\ raised.origin = "transport"
  /\ RaisedStatus = 429
  /\ posts = 1

(***************************************************************************)
(* Payload per locale, health report, empty body.                          *)
(***************************************************************************)
\* C14: for every supported locale L and every history, the posted payload
\* has a system message made of the persona, the instruction of L and the
\* guidelines, has 1 + (number of user/assistant entries) messages (2 for a
\* single user turn), and has stream set to false.
C14_PayloadForSupportedLocale ==
  (Posting /\ call.language.t = "string" /\ call.language.s \in Locales) =>
    LET history == call.messages.items
        kept == {i \in 1..Len(history) : history[i].role \in {"user", "assistant"}}
    IN /\ request.messages[1].role = "system"
       /\ request.messages[1].content =
            Persona \o instructions.props[call.language.s].s \o Guidelines
       /\ \A other \in Locales \ {call.language.s} :
            request.messages[1].content /=
              Persona \o instructions.props[other].s \o Guidelines
       /\ Len(request.messages) = 1 + Cardinality(kept)
       /\ (Len(history) = 1 /\ history[1].role = "user") => Len(request.messages) = 2
       /\ request.stream = Bool(FALSE)

\* C14 witness: sendMessage([{role:'user', content:'How do I schedule an
\* appointment?'}], 'es', {}) has posted two messages
C14_Witness ==
  /\ Posting
  /\ call.language = Str("es")
  /\ call.messages.items =
       <<[role |-> "user", content |-> "How do I schedule an appointment?"]>>
  /\ DOMAIN call.options.props = {}
  /\ Len(request.messages) = 2

\* C15: healthCheck reports 'unhealthy' with the thrown error's message
\* exactly when its probe POST raised, and 'healthy' without an error field
\* exactly when the probe POST resolved; the probe is always the same two
\* messages (system, user) with max_tokens 10 and temperature 0, whatever
\* calls came before.
C15_HealthReport ==
  /\ HealthSettled =>
       /\ outcome.state = "fulfilled"
       /\ (outcome.value.status = "unhealthy") <=> (raised.t = "error")
       /\ (outcome.value.status = "healthy") <=> (response.t = "response")
       /\ outcome.value.status = "unhealthy" =>
            /\ outcome.value.error = raised.message
            /\ response.t = "undefined"
       /\ outcome.value.status = "healthy" =>
            /\ "error" \notin DOMAIN outcome.value
            /\ raised.t = "undefined"
  /\ pc = "healthCheck:post" =>
       /\ DOMAIN request = {"messages", "max_tokens", "temperature"}
       /\ Len(request.messages) = 2
       /\ request.messages[1] =
            [role |-> "system",
             content |-> "You are a test assistant. Respond with \"OK\" only."]
       /\ request.messages[2] = [role |-> "user", content |-> "Health check"]
       /\ request.max_tokens = Num(10)
       /\ request.temperature = Num(0)

\* C15 witness: the probe was refused and the report carries the message
C15_Witness ==
  /\ HealthSettled
  /\ raised.t = "error"
  /\ raised.message = "Network Error"
  /\ outcome.value.status = "unhealthy"
  /\ outcome.value.error = "Network Error"

\* C16: when the POST resolves with an absent body, sendMessage rejects, and
\* the rejection is the generic provider error that includes the 'no
\* response data' message, never one of the four specific errors.
C16_EmptyBodyIsGenericError ==
  (PostResolved /\ BodyAbsent(response.data)) =>
    /\ outcome.state = "rejected"
    /\ outcome.reason.message =
         "Databricks API error: No response data from Databricks"
    /\ outcome.reason.message \notin
         {AuthMessage, RateLimitMessage, UnavailableMessage, TimeoutMessage}
    /\ raised.origin = "sendMessage:54"

\* C16 witness: a response with status 200 and no body was rejected
C16_Witness ==
  /\ PostResolved
  /\ response.data.t = "undefined"
  /\ response.status = Num(200)
  /\ outcome.state = "rejected"

(***************************************************************************)
(* Frame of formatMessages.                                                *)
(***************************************************************************)
\* C17: formatMessages does not mutate its input: afterwards the caller's
\* array has the same length and the same elements in the same order, each
\* with unchanged role and content, and the returned list shares no entry
\* object with it.
C17_FormatLeavesInputAlone ==
  Posting =>
    LET history == call.messages.items
        mem == call.memory
    IN /\ Len(mem.messages) = Len(history)
       /\ \A i \in 1..Len(history) :
            /\ mem.messages[i] = i
            /\ mem.objects[i] = history[i]
       /\ \A k \in 1..Len(mem.formatted) :
            \A i \in 1..Len(mem.messages) : mem.formatted[k] /= mem.messages[i]
       /\ Len(mem.formatted) = Len(request.messages)
       /\ \A k \in 1..Len(mem.formatted) :
            mem.objects[mem.formatted[k]] = request.messages[k]

\* C17 witness: of a two-entry history one entry was copied and one skipped
C17_Witness ==
  /\ Posting
  /\ Len(call.messages.items) = 2
  /\ call.messages.items[2].role = "assistant"
  /\ call.messages.items[1].role = "tool"
  /\ Len(call.memory.formatted) = 2
  /\ Len(call.memory.objects) = 4

(***************************************************************************)
(* Independence of concurrent calls.                                       *)
(***************************************************************************)
\* the request a call with these arguments puts on the wire when it is the
\* only call the instance ever serves
SequentialRequest(op, args) ==
  IF op = "healthCheck" THEN ClientPost(Construct(env).value, HealthProbe)
  ELSE ClientPost(Construct(env).value,
         BuildPayload(args.messages,
                      getLanguageInstruction(DefaultParam(args.language, Str("en"))),
                      DefaultParam(args.options, Obj(<<>>))).value)

\* the settlement of such a call, given what its POST settled with and the
\* clock reading it took
SequentialOutcome(op, reply, now) ==
  IF op = "healthCheck"
    THEN Fulfilled(op, IF reply.t = "response" THEN Healthy(reply, now)
                                               ELSE Unhealthy(reply, now))
  ELSE IF reply.t = "error" THEN Rejected(op, Classify(reply))
  ELSE IF Normalize(reply, now).threw
    THEN Rejected(op, Classify(Normalize(reply, now).error))
  ELSE Fulfilled(op, Normalize(reply, now).value)

InFlight(i) == calls[i].pc \in {"sendMessage:await", "healthCheck:await"}
Done(i) == calls[i].pc = "settled"

\* C13: in every interleaving of concurrent sendMessage and healthCheck calls
\* on one instance, the request a call posts is the one its own arguments
\* determine, its settlement is the one its own arguments, the response to its
\* own POST and its own clock reading determine (what it would be had the
\* call run alone), two calls with the same inputs get the same results, and
\* the instance (endpoint, credential, client configuration) never changes.
C13_CallsAreIndependent ==
  /\ service = Construct(env).value
  /\ \A i \in CallIds :
       /\ (InFlight(i) \/ (Done(i) /\ calls[i].wire /= Undefined))
            => calls[i].wire = SequentialRequest(calls[i].op, calls[i].args)
       /\ Done(i)
            => calls[i].outcome =
                 SequentialOutcome(calls[i].op, calls[i].reply, calls[i].now)
  /\ \A i, j \in CallIds :
       (/\ calls[i].op = calls[j].op
        /\ calls[i].args = calls[j].args
        /\ calls[i].op /= "none")
         => /\ (calls[i].wire /= Undefined /\ calls[j].wire /= Undefined)
                 => calls[i].wire = calls[j].wire
            /\ (Done(i) /\ Done(j) /\ calls[i].reply = calls[j].reply
                  /\ calls[i].now = calls[j].now)
                 => calls[i].outcome = calls[j].outcome

\* two calls in flight at once, started with different arguments, settle in
\* the opposite order of their start with different results
C13_Witness ==
  /\ Done(2)
  /\ InFlight(1)
  /\ calls[1].op = "sendMessage"
  /\ calls[2].op = "sendMessage"
  /\ calls[1].args /= calls[2].args
  /\ calls[2].outcome.state = "fulfilled"
  /\ calls[1].wire /= calls[2].wire

(***************************************************************************)
(* POST /api/chat (src/unnamed/part_001, lines 75-694): the mock table,    *)
(* determineIntent and the route handler.                                  *)
(***************************************************************************)
UpperCase == <<"A", "B", "C", "D", "E", "F", "G", "H", "I", "J", "K", "L", "M", "N", "O", "P", "Q", "R", "S", "T", "U", "V", "W", "X", "Y", "Z">>
LowerCase == <<"a", "b", "c", "d", "e", "f", "g", "h", "i", "j", "k", "l", "m", "n", "o", "p", "q", "r", "s", "t", "u", "v", "w", "x", "y", "z">>

\* String.prototype.toLowerCase, on the letters A-Z
toLowerCase(chars) ==
  [i \in 1..Len(chars) |->
     IF \E k \in 1..Len(UpperCase) : UpperCase[k] = chars[i]
       THEN LowerCase[CHOOSE k \in 1..Len(UpperCase) : UpperCase[k] = chars[i]]
       ELSE chars[i]]

\* String.prototype.includes
includes(chars, word) ==
  \E i \in 0..(Len(chars) - Len(word)) : SubSeq(chars, i + 1, i + Len(word)) = word

\* lines 610-627: the keyword tests, in the order they are made
IntentKeywords ==
  <<[intent |-> "screening",
    words |-> {<<"s", "c", "r", "e", "e", "n">>,
               <<"t", "e", "s", "t">>,
               <<"c", "h", "e", "c", "k">>}],
   [intent |-> "scheduling",
    words |-> {<<"a", "p", "p", "o", "i", "n", "t", "m", "e", "n", "t">>,
               <<"s", "c", "h", "e", "d", "u", "l", "e">>,
               <<"b", "o", "o", "k">>}],
   [intent |-> "costs",
    words |-> {<<"c", "o", "s", "t">>,
               <<"i", "n", "s", "u", "r", "a", "n", "c", "e">>,
               <<"p", "a", "y">>,
               <<"b", "i", "l", "l">>}],
   [intent |-> "aya",
    words |-> {<<"y", "o", "u", "n", "g", " ", "a", "d", "u", "l", "t">>,
               <<"a", "y", "a">>,
               <<"s", "u", "p", "p", "o", "r", "t">>}],
   [intent |-> "wayfinding",
    words |-> {<<"l", "o", "c", "a", "t", "i", "o", "n">>,
               <<"a", "d", "d", "r", "e", "s", "s">>,
               <<"d", "i", "r", "e", "c", "t", "i", "o", "n">>,
               <<"w", "h", "e", "r", "e">>}],
   [intent |-> "glossary",
    words |-> {<<"t", "e", "r", "m">>,
               <<"m", "e", "a", "n", "i", "n", "g">>,
               <<"d", "e", "f", "i", "n", "i", "t", "i", "o", "n">>,
               <<"w", "h", "a", "t", " ", "i", "s">>}]>>

\* a classifier in which the last matching test wins
LastIntent(lowerText, i) ==
  LET hits == {k \in i..Len(IntentKeywords) :
                 \E word \in IntentKeywords[k].words : includes(lowerText, word)}
  IN IF hits = {} THEN "unknown"
     ELSE IntentKeywords[CHOOSE k \in hits : \A h \in hits : h <= k].intent

RECURSIVE FirstIntent(_, _)
FirstIntent(lowerText, i) ==
  IF i > Len(IntentKeywords) THEN "unknown"
  ELSE IF \E word \in IntentKeywords[i].words : includes(lowerText, word)
    THEN IntentKeywords[i].intent
  ELSE FirstIntent(lowerText, i + 1)

\* lines 607-630; a value that is not a string has no toLowerCase
determineIntent(text) ==
  IF text.t /= "text"
    THEN Threw(NewError("TypeError", "text.toLowerCase is not a function",
                        Undefined, Undefined, "runtime"))
    ELSE Returned(Str(FirstIntent(toLowerCase(text.chars), 1)))

\* process.env.NEXT_PUBLIC_BOOKING_URL || 'https://mskcc.org/appointments',
\* with the variable unset
BookingUrl == "https://mskcc.org/appointments"
MainNumber == "tel:+1-212-639-2000"

ActionButton(type, href) == [type |-> type, href |-> href]

\* lines 79-605: the action buttons of the one message of each intent; they
\* are the same in the five locales (labels and texts differ)
MockActions ==
  [screening |-> <<ActionButton("schedule", BookingUrl), ActionButton("call", MainNumber)>>,
   scheduling |-> <<ActionButton("schedule", BookingUrl),
                    ActionButton("call", "tel:+1-212-639-7606")>>,
   costs |-> <<ActionButton("resource", "https://mskcc.org/insurance-assistance"),
               ActionButton("call", "tel:+1-212-639-3910")>>,
   aya |-> <<ActionButton("resource", "https://mskcc.org/aya-program"),
             ActionButton("schedule", BookingUrl)>>,
   wayfinding |-> <<ActionButton("resource", "https://mskcc.org/locations"),
                    ActionButton("call", MainNumber)>>,
   glossary |-> <<ActionButton("resource", "https://mskcc.org/glossary"),
                  ActionButton("call", "tel:+1-212-639-7056")>>,
   unknown |-> <<ActionButton("call", MainNumber), ActionButton("schedule", BookingUrl)>>]

MockCitations ==
  [screening |-> <<"https://mskcc.org/aya-screening">>,
   scheduling |-> <<"https://mskcc.org/appointments">>,
   costs |-> <<"https://mskcc.org/insurance-assistance">>,
   aya |-> <<"https://mskcc.org/aya-program">>,
   wayfinding |-> <<"https://mskcc.org/locations">>,
   glossary |-> <<"https://mskcc.org/glossary">>,
   unknown |-> <<>>]

\* the message of a locale and an intent; its content stands for the text of
\* that locale (the timestamp, taken when the module loads, is left out)
MockMessage(lang, intent) ==
  [id |-> "msg_" \o intent, role |-> "assistant",
   content |-> lang \o ":" \o intent,
   citations |-> MockCitations[intent], actions |-> MockActions[intent]]

validLocales == {"en", "es", "ar", "zh", "pt"}

\* the own keys of each locale's table; language_selection is an empty list
MockIntents == DOMAIN MockActions \cup {"language_selection"}

mockResponses ==
  [lang \in validLocales |->
     Obj([intent \in MockIntents |->
            IF intent = "language_selection" THEN Arr(<<>>)
            ELSE Arr(<<MockMessage(lang, intent)>>)])]

\* lines 676-690: the message of the catch block
ErrorMessage ==
  [id |-> "error", role |-> "assistant",
   content |-> "I apologize, but I encountered an error. Please try again or contact us directly for assistance.",
   citations |-> <<>>,
   actions |-> <<ActionButton("call", MainNumber), ActionButton("schedule", BookingUrl)>>]

\* JSON.stringify of a property value: a function is left out
ToJSON(v) == IF v.t = "function" THEN Undefined ELSE v

\* NextResponse.json(body, { status })
JsonResponse(status, messages, intent, elapsedMs) ==
  [status |-> status,
   body |-> [messages |-> ToJSON(messages), intent |-> ToJSON(intent),
             elapsedMs |-> elapsedMs]]

\* a request body that is not JSON: request.json() rejects
NotJson == [t |-> "notjson"]

\* a handler that prefers meta.locale to the header
FinalLocaleMetaFirst(header, body) ==
  LET requested == Or(Or(Get(body.meta, "locale"), header), Str("en"))
  IN IF requested.t = "string" /\ requested.s \in validLocales
       THEN requested.s ELSE "en"

\* lines 639-644: the locale whose table is used
FinalLocale(header, body) ==
  LET requested == Or(Or(header, Get(body.meta, "locale")), Str("en"))
  IN IF requested.t = "string" /\ requested.s \in validLocales
       THEN requested.s ELSE "en"

\* lines 646-654: the intent, or what determineIntent threw
FinalIntent(body) ==
  IF Truthy(body.intent) THEN Returned(body.intent)
  ELSE IF Truthy(body.text) THEN determineIntent(body.text)
  ELSE Returned(Str("unknown"))

\* line 657
Lookup(finalLocale, finalIntent) ==
  Or(Get(mockResponses[finalLocale], ToPropertyKey(finalIntent)),
     Get(mockResponses[finalLocale], "unknown"))

\* lines 636-658: the locale, the intent and the messages of a request, or
\* what the try block threw
Respond(header, body) ==
  IF body.t = "notjson"
    THEN Threw(NewError("SyntaxError", "Unexpected token", Undefined, Undefined, "runtime"))
  ELSE IF Nullish(body)
    THEN Threw(NewError("TypeError", "Cannot destructure property of " \o body.t,
                        Undefined, Undefined, "runtime"))
  ELSE IF FinalIntent(body).threw THEN FinalIntent(body)
  ELSE Returned(
         [locale |-> FinalLocale(header, body),
          intent |-> FinalIntent(body).value,
          messages |-> Lookup(FinalLocale(header, body), FinalIntent(body).value)])

\* what a client can send
ChatHeaders == {Null, Str(""), Str("es"), Str("fr")}
ChatMetas == {Undefined, Null, Obj(<<>>), Obj("locale" :> Str("zh")),
              Obj("locale" :> Str("de"))}
ChatIntents ==
  {Undefined, Null, Str("")} \cup
  {Str(k) : k \in MockIntents \cup {"support", "emergency", "constructor"}}
ChatTexts ==
  {Undefined, Txt(<<>>), Num(5),
   Txt(<<"S", "c", "r", "e", "e", "n", "i", "n", "g">>),
   Txt(<<"b", "o", "o", "k", " ", "a", " ", "T", "E", "S", "T">>),
   Txt(<<"B", "o", "o", "k", " ", "m", "e", " ", "i", "n">>),
   Txt(<<"m", "y", " ", "b", "i", "l", "l">>),
   Txt(<<"I", " ", "n", "e", "e", "d", " ", "S", "U", "P", "P", "O", "R", "T">>),
   Txt(<<"W", "h", "e", "r", "e", "?">>),
   Txt(<<"w", "h", "a", "t", " ", "i", "s", " ", "i", "t">>),
   Txt(<<"h", "e", "l", "l", "o">>),
   Txt(<<"d", "e", "t", "e", "r", "m", "i", "n", "e", "d">>)}
ChatBodies ==
  {NotJson, Null} \cup
  [t : {"body"}, intent : ChatIntents, text : ChatTexts, meta : ChatMetas]

\* the simulated processing time (line 661) and the time a failed request takes
Delays == {500, 1000, 1499}
FailureTimes == {0, 1}

\* lines 632-661: the request arrives; the handler runs to its delay, or to
\* the catch block
chatPOST ==
  /\ chatPc = "idle"
  /\ \E header \in ChatHeaders, body \in ChatBodies :
       /\ chatIn' = [header |-> header, body |-> body]
       /\ IF Respond(header, body).threw
            THEN /\ chatPc' = "responded"
                 /\ \E elapsedMs \in FailureTimes :
                      chatOut' = JsonResponse(500, Arr(<<ErrorMessage>>),
                                              Str("unknown"), elapsedMs)
                 /\ UNCHANGED chatLocals
            ELSE /\ chatPc' = "delay"
                 /\ chatLocals' = Respond(header, body).value
                 /\ UNCHANGED chatOut
  /\ UNCHANGED outsideRoute

\* lines 661-671: the delay is over; the response is returned
chatRespond ==
  /\ chatPc = "delay"
  /\ \E elapsedMs \in Delays :
       chatOut' = JsonResponse(200, chatLocals.messages, chatLocals.intent, elapsedMs)
  /\ chatPc' = "responded"
  /\ UNCHANGED <<chatIn, chatLocals, outsideRoute>>

\* the client has the response; the route takes the next request
chatNext ==
  /\ chatPc = "responded"
  /\ chatPc' = "idle"
  /\ chatIn' = Undefined
  /\ chatOut' = Undefined
  /\ chatLocals' = Undefined
  /\ UNCHANGED outsideRoute

InitChat ==
  /\ env \in {e \in Environments : ~Construct(e).threw}
  /\ service = Undefined
  /\ pc = "new"
  /\ posts = 0
  /\ call = Undefined
  /\ request = Undefined
  /\ response = Undefined
  /\ raised = Undefined
  /\ outcome = Pending
  /\ calls = NoCalls
  /\ RouteIdle
  /\ SessionIdle
  /\ InterfaceUnmounted
  /\ PanelUnmounted
  /\ ComposerUnmounted

NextChat ==
  \/ chatPOST
  \/ chatRespond
  \/ chatNext

SpecChat == InitChat /\ [][NextChat]_vars

ActionTypes == {"call", "schedule", "resource"}

\* a message that carries at least one action button
HasActionButton(message) ==
  /\ Len(message.actions) >= 1
  /\ \A k \in 1..Len(message.actions) : message.actions[k].type \in ActionTypes

\* C18: every response of POST /api/chat, whatever the locale and the intent
\* (supplied, inferred from the text or absent), includes at least one message
\* that carries at least one action button (call, schedule or resource).
C18_EveryResponseHasAction ==
  chatPc = "responded" =>
    /\ chatOut.body.messages.t = "array"
    /\ \E k \in 1..Len(chatOut.body.messages.items) :
         HasActionButton(chatOut.body.messages.items[k])

(***************************************************************************)
(* The chat panel (src/client/components/ChatbotPanel.tsx), the language   *)
(* switcher (src/unnamed/part_003), the session store                      *)
(* (src/client/types/chat.ts) and the message catalogue                    *)
(* (src/unnamed/part_008).                                                 *)
(*                                                                         *)
(* A message of the panel is its role, the catalogue key of its text and   *)
(* the locale of the catalogue that text was taken from; the catalogues    *)
(* are taken to have a different text per locale.                          *)
(***************************************************************************)
\* number of messages the user sends
MaxUserMessages == 1

Turn(role, key, lang, param) == [role |-> role, key |-> key, lang |-> lang, param |-> param]
Task(kind, target, lang) == [kind |-> kind, locale |-> target, lang |-> lang]
Event(kind, target) == [kind |-> kind, locale |-> target]
\* a handler that is not a click on a chip nor the continuation of one
OtherEvent == Event("other", "none")

\* selectedLocale.toUpperCase()
toUpperCase ==
  [en |-> "EN", es |-> "ES", ar |-> "AR", zh |-> "ZH", pt |-> "PT"]

\* ChatbotPanel.tsx lines 245-248: the inline chips are rendered under the
\* last message while it is the language prompt in the words of the loaded
\* catalogue
ChipsShowing ==
  /\ showLanguageSelection
  /\ turns /= <<>>
  /\ turns[Len(turns)].role = "assistant"
  /\ turns[Len(turns)].key = "chooseLanguage"
  /\ turns[Len(turns)].lang = intl

\* ChatbotPanel.tsx line 282: the composer's disabled prop
ComposerDisabled == isLoading \/ showLanguageSelection

UserMessages == Len(SelectSeq(turns, LAMBDA m : m.role = "user"))

InitPanel ==
  /\ env \in {e \in Environments : ~Construct(e).threw}
  /\ service = Undefined
  /\ pc = "new"
  /\ posts = 0
  /\ call = Undefined
  /\ request = Undefined
  /\ response = Undefined
  /\ raised = Undefined
  /\ outcome = Pending
  /\ calls = NoCalls
  /\ RouteIdle
  /\ SessionIdle
  /\ InterfaceUnmounted
  /\ locale \in validLocales
  /\ intl = "en"
  /\ turns = <<>>
  /\ isLoading = FALSE
  /\ showLanguageSelection = TRUE
  /\ tasks = {}
  /\ lastEvent = NoEvent
  /\ ComposerUnmounted

\* ChatbotPanel.tsx lines 29-53: the welcome messages
panelMount ==
  /\ turns = <<>>
  /\ turns' = <<Turn("assistant", "welcome", intl, ""),
                Turn("system", "disclaimer", intl, ""),
                Turn("assistant", "chooseLanguage", intl, "")>>
  /\ lastEvent' = OtherEvent
  /\ UNCHANGED <<locale, intl, isLoading, showLanguageSelection, tasks, outsidePanel>>

\* part_008 lines 32-46: the catalogue of the active locale is loaded, unless
\* that locale is 'en'
loadMessages ==
  /\ locale /= "en"
  /\ intl /= locale
  /\ intl' = locale
  /\ lastEvent' = OtherEvent
  /\ UNCHANGED <<locale, turns, isLoading, showLanguageSelection, tasks, outsidePanel>>

\* part_003 lines 27-36 with ChatbotPanel.tsx lines 62-74: a click on an
\* inline chip, up to the await of the locale request
inlineLanguageChange ==
  /\ ChipsShowing
  /\ \E newLocale \in validLocales :
       /\ lastEvent' = Event("chip", newLocale)
       /\ IF newLocale = locale
            THEN UNCHANGED <<locale, showLanguageSelection, tasks>>
            ELSE /\ locale' = newLocale
                 /\ showLanguageSelection' = FALSE
                 /\ tasks' = tasks \cup {Task("saveLocale", newLocale, intl)}
  /\ UNCHANGED <<intl, turns, isLoading, outsidePanel>>

\* part_003 lines 27-48: a choice in the header's dropdown
headerLanguageChange ==
  /\ \E newLocale \in validLocales :
       /\ lastEvent' = OtherEvent
       /\ IF newLocale = locale
            THEN UNCHANGED locale
            ELSE locale' = newLocale
  /\ UNCHANGED <<intl, turns, isLoading, showLanguageSelection, tasks, outsidePanel>>

\* ChatbotPanel.tsx lines 75-93: the locale request settled either way; the
\* confirmation is appended and the quick-intent timer is started
localeSaved ==
  /\ \E task \in tasks :
       /\ task.kind = "saveLocale"
       /\ turns' = Append(turns, Turn("assistant", "languageConfirm", task.lang,
                                      toUpperCase[task.locale]))
       /\ tasks' = (tasks \ {task}) \cup {Task("quickIntents", "", "")}
       /\ lastEvent' = Event("saved", task.locale)
  /\ UNCHANGED <<locale, intl, isLoading, showLanguageSelection, outsidePanel>>

\* ChatbotPanel.tsx lines 95-121: the timer of line 90 fired
showQuickIntents ==
  /\ \E task \in tasks :
       /\ task.kind = "quickIntents"
       /\ turns' = Append(turns, Turn("assistant", "quickIntents", "en", ""))
       /\ tasks' = tasks \ {task}
       /\ lastEvent' = OtherEvent
  /\ UNCHANGED <<locale, intl, isLoading, showLanguageSelection, outsidePanel>>

\* ChatbotPanel.tsx lines 165-189: the composer submits a message
handleUserMessage ==
  /\ ~ComposerDisabled
  /\ turns /= <<>>
  /\ UserMessages < MaxUserMessages
  /\ turns' = Append(turns, Turn("user", "text", "", ""))
  /\ isLoading' = TRUE
  /\ tasks' = tasks \cup {Task("chat", "", "")}
  /\ lastEvent' = OtherEvent
  /\ UNCHANGED <<locale, intl, showLanguageSelection, outsidePanel>>

\* ChatbotPanel.tsx lines 191-213: the chat request settled: with messages,
\* with none, or with a failure
chatSettled ==
  /\ \E task \in tasks :
       /\ task.kind = "chat"
       /\ tasks' = tasks \ {task}
       /\ \E result \in {"reply", "empty", "error"} :
            turns' = IF result = "empty" THEN turns
                     ELSE Append(turns, Turn("assistant", result, "", ""))
       /\ lastEvent' = OtherEvent
  /\ isLoading' = FALSE
  /\ UNCHANGED <<locale, intl, showLanguageSelection, outsidePanel>>

NextPanel ==
  \/ panelMount
  \/ loadMessages
  \/ inlineLanguageChange
  \/ headerLanguageChange
  \/ localeSaved
  \/ showQuickIntents
  \/ handleUserMessage
  \/ chatSettled

SpecPanel == InitPanel /\ [][NextPanel]_vars

\* the confirmation of a locale is among the messages
Confirmed(target) ==
  \E k \in 1..Len(turns) :
    turns[k].key = "languageConfirm" /\ turns[k].param = toUpperCase[target]

\* C19: a click on any inline language chip, the chip of the active locale
\* included, makes that locale the active one, hides the chips, enables the
\* composer and leads to the confirmation message: right after the click the
\* confirmation is on its way, and once a chip has been clicked the chips
\* never keep the composer disabled.
C19_ChipSelectsLanguage ==
  /\ lastEvent.kind = "chip" =>
       /\ locale = lastEvent.locale
       /\ ~ChipsShowing
       /\ ~ComposerDisabled
       /\ Task("saveLocale", lastEvent.locale, intl) \in tasks
  /\ lastEvent.kind = "saved" =>
       /\ Confirmed(lastEvent.locale)
       /\ ~showLanguageSelection

(***************************************************************************)
(* The message composer (src/unnamed/part_001, lines 696-779) and the PII  *)
(* tests (src/unnamed/part_007, lines 19-39).  A text is the sequence of   *)
(* its characters; time is in seconds.                                     *)
(***************************************************************************)
\* longest time the browser runs
MaxClock == 6
\* number of times the form is submitted
MaxAttempts == 2
\* the delay of the timer that clears the warning: 5000 ms
WarningSeconds == 5

Range(seq) == {seq[i] : i \in 1..Len(seq)}

Digit == {"0", "1", "2", "3", "4", "5", "6", "7", "8", "9"}
Letter == Range(UpperCase) \cup Range(LowerCase)
\* \w and \s
WordChar == Letter \cup Digit \cup {"_"}
WhiteSpace == {" ", "\t", "\n"}

\* the character at position i, or no character outside the text
CharAt(chars, i) == IF i \in 1..Len(chars) THEN chars[i] ELSE ""

\* \b before position i
WordBoundary(chars, i) ==
  (CharAt(chars, i - 1) \in WordChar) /= (CharAt(chars, i) \in WordChar)

\* the characters at positions i..j are all of the class
AllIn(chars, i, j, class) == \A k \in i..j : chars[k] \in class

\* String.prototype.trim
trim(chars) ==
  LET inked == {k \in 1..Len(chars) : chars[k] \notin WhiteSpace}
  IN IF inked = {} THEN <<>>
     ELSE SubSeq(chars, CHOOSE k \in inked : \A j \in inked : k <= j,
                        CHOOSE k \in inked : \A j \in inked : k >= j)

\* part_007 line 21: /\b[A-Za-z0-9._%+-]+@[A-Za-z0-9.-]+\.[A-Z|a-z]{2,}\b/
EmailLocal == Letter \cup Digit \cup {".", "_", "%", "+", "-"}
EmailDomain == Letter \cup Digit \cup {".", "-"}
EmailTld == Letter \cup {"|"}

containsEmail(chars) ==
  \E at \in 1..Len(chars) :
    /\ chars[at] = "@"
    /\ \E a \in 1..(at - 1) :
         /\ AllIn(chars, a, at - 1, EmailLocal)
         /\ WordBoundary(chars, a)
    /\ \E dot \in (at + 2)..Len(chars) :
         /\ chars[dot] = "."
         /\ AllIn(chars, at + 1, dot - 1, EmailDomain)
         /\ \E end \in (dot + 2)..Len(chars) :
              /\ AllIn(chars, dot + 1, end, EmailTld)
              /\ WordBoundary(chars, end + 1)

\* part_007 line 27:
\* /(\+?1[-.\s]?)?\(?\d{3}\)?[-.\s]?\d{3}[-.\s]?\d{4}/ ; the optional country
\* code and opening parenthesis match the empty string, so a match exists
\* exactly when one exists from the first group of three digits
PhoneSeparator == {"-", "."} \cup WhiteSpace

containsPhone(chars) ==
  \E p \in 1..Len(chars), paren \in 0..1, sep1 \in 0..1, sep2 \in 0..1 :
    LET q == p + 3 + paren + sep1
        r == q + 3 + sep2
    IN /\ r + 3 <= Len(chars)
       /\ AllIn(chars, p, p + 2, Digit)
       /\ paren = 1 => chars[p + 3] = ")"
       /\ sep1 = 1 => chars[p + 3 + paren] \in PhoneSeparator
       /\ AllIn(chars, q, q + 2, Digit)
       /\ sep2 = 1 => chars[q + 3] \in PhoneSeparator
       /\ AllIn(chars, r, r + 3, Digit)

\* part_007 line 33: /\b\d+\s+([\w\s]+(?:street|st|...|blvd))\b/i
StreetWords ==
  {<<"s", "t", "r", "e", "e", "t">>,
   <<"s", "t">>,
   <<"a", "v", "e", "n", "u", "e">>,
   <<"a", "v", "e">>,
   <<"r", "o", "a", "d">>,
   <<"r", "d">>,
   <<"d", "r", "i", "v", "e">>,
   <<"d", "r">>,
   <<"l", "a", "n", "e">>,
   <<"l", "n">>,
   <<"c", "o", "u", "r", "t">>,
   <<"c", "t">>,
   <<"p", "l", "a", "c", "e">>,
   <<"p", "l">>,
   <<"b", "o", "u", "l", "e", "v", "a", "r", "d">>,
   <<"b", "l", "v", "d">>}

containsAddress(chars) ==
  \E a \in 1..Len(chars) :
    /\ WordBoundary(chars, a)
    /\ \E b \in a..Len(chars) :
         /\ AllIn(chars, a, b, Digit)
         /\ \E c \in (b + 1)..Len(chars) :
              /\ AllIn(chars, b + 1, c, WhiteSpace)
              /\ \E d \in (c + 1)..Len(chars) :
                   /\ AllIn(chars, c + 1, d, WordChar \cup WhiteSpace)
                   /\ \E word \in StreetWords :
                        /\ d + Len(word) <= Len(chars)
                        /\ SubSeq(toLowerCase(chars), d + 1, d + Len(word)) = word
                        /\ WordBoundary(chars, d + Len(word) + 1)

\* part_007 lines 37-39
containsPII(chars) ==
  containsEmail(chars) \/ containsPhone(chars) \/ containsAddress(chars)

\* what the user types into the field
Drafts ==
  {<<>>,
   <<" ", " ">>,
   <<" ", "h", "i", " ">>,
   <<"a", "@", "b", ".", "c", "o">>,
   <<" ", "2", "1", "2", "-", "6", "3", "9", "-", "2", "0", "0", "0">>,
   <<"5", " ", "E", "l", "m", " ", "S", "t", " ">>}

\* a run of handleSubmit: when it ran, the field's value and what the PII
\* test said (FALSE when the test was not reached)
Attempt(at, text, pii) == [at |-> at, text |-> text, pii |-> pii]

InitComposer ==
  /\ env \in {e \in Environments : ~Construct(e).threw}
  /\ service = Undefined
  /\ pc = "new"
  /\ posts = 0
  /\ call = Undefined
  /\ request = Undefined
  /\ response = Undefined
  /\ raised = Undefined
  /\ outcome = Pending
  /\ calls = NoCalls
  /\ RouteIdle
  /\ SessionIdle
  /\ InterfaceUnmounted
  /\ PanelUnmounted
  /\ ComposerUnmounted

\* the user edits the field (part_001 lines 760-767)
typeMessage ==
  /\ ~disabled
  /\ \E text \in Drafts \ {draft} : draft' = text
  /\ UNCHANGED <<disabled, showPIIWarning, timers, clock, attempts, submitted, clears,
                 outsideComposer>>

\* the parent renders the composer with the other value of `disabled`
setDisabled ==
  /\ disabled' = ~disabled
  /\ UNCHANGED <<draft, showPIIWarning, timers, clock, attempts, submitted, clears,
                 outsideComposer>>

\* a handleSubmit that keeps a message with PII back
handleSubmitBlocking ==
  /\ ~disabled
  /\ Len(attempts) < MaxAttempts
  /\ LET message == trim(draft)
     IN IF message = <<>>
          THEN /\ attempts' = Append(attempts, Attempt(clock, draft, FALSE))
               /\ UNCHANGED <<draft, showPIIWarning, timers, submitted>>
          ELSE IF containsPII(message)
            THEN /\ attempts' = Append(attempts, Attempt(clock, draft, TRUE))
                 /\ showPIIWarning' = TRUE
                 /\ timers' = timers \cup {clock + WarningSeconds}
                 /\ UNCHANGED <<draft, submitted>>
            ELSE /\ attempts' = Append(attempts, Attempt(clock, draft, FALSE))
                 /\ submitted' = Append(submitted, message)
                 /\ draft' = <<>>
                 /\ UNCHANGED <<showPIIWarning, timers>>
  /\ UNCHANGED <<disabled, clock, clears, outsideComposer>>

\* part_001 lines 726-738: the form is submitted (button or Enter)
handleSubmit ==
  /\ ~disabled
  /\ Len(attempts) < MaxAttempts
  /\ LET message == trim(draft)
     IN IF message = <<>>
          THEN /\ attempts' = Append(attempts, Attempt(clock, draft, FALSE))
               /\ UNCHANGED <<draft, showPIIWarning, timers, submitted>>
          ELSE /\ attempts' = Append(attempts, Attempt(clock, draft, containsPII(message)))
               /\ IF containsPII(message)
                    THEN /\ showPIIWarning' = TRUE
                         /\ timers' = timers \cup {clock + WarningSeconds}
                    ELSE UNCHANGED <<showPIIWarning, timers>>
               /\ submitted' = Append(submitted, message)
               /\ draft' = <<>>
  /\ UNCHANGED <<disabled, clock, clears, outsideComposer>>

\* part_001 line 733: a timer's callback runs, at its time
warningTimeout ==
  /\ clock \in timers
  /\ showPIIWarning' = FALSE
  /\ timers' = timers \ {clock}
  /\ clears' = clears \cup {clock}
  /\ UNCHANGED <<draft, disabled, clock, attempts, submitted, outsideComposer>>

\* a second passes; a timer that is due runs first
tick ==
  /\ clock < MaxClock
  /\ clock \notin timers
  /\ clock' = clock + 1
  /\ UNCHANGED <<draft, disabled, showPIIWarning, timers, attempts, submitted, clears,
                 outsideComposer>>

NextComposer ==
  \/ typeMessage
  \/ setDisabled
  \/ handleSubmit
  \/ warningTimeout
  \/ tick

SpecComposer == InitComposer /\ [][NextComposer]_vars

(***************************************************************************)
(* PII warning of the composer.                                            *)
(***************************************************************************)
\* the runs of handleSubmit whose field held more than white space
RECURSIVE TrimmedKept(_, _)
TrimmedKept(runs, i) ==
  IF i > Len(runs) THEN <<>>
  ELSE IF trim(runs[i].text) = <<>> THEN TrimmedKept(runs, i + 1)
  ELSE <<trim(runs[i].text)>> \o TrimmedKept(runs, i + 1)

\* whether the trimmed text of a field value is non-empty and holds an e-mail
\* address, a phone number or a street address
HoldsPII == [text \in Drafts |-> trim(text) /= <<>> /\ containsPII(trim(text))]

\* the times at which a warning raised by a detection is to be cleared
ClearTimes == {attempts[k].at + WarningSeconds : k \in {j \in 1..Len(attempts) : attempts[j].pii}}

\* C20: the PII warning does not block: onSubmit has been called exactly once,
\* in order, with the trimmed text of every submitted message that is not
\* empty after trimming, whether or not PII was detected in it, and never for
\* an empty or white-space message; a detection (of an e-mail address, a
\* phone number or a street address, in the trimmed text) only raises the
\* warning flag, and a timer clears the flag 5 seconds after the detection.
C20_PIIWarningNonBlocking ==
  /\ submitted = TrimmedKept(attempts, 1)
  /\ \A k \in 1..Len(attempts) :
       /\ attempts[k].pii = HoldsPII[attempts[k].text]
       /\ attempts[k].pii =>
            \/ attempts[k].at + WarningSeconds \in timers /\ clock <= attempts[k].at + WarningSeconds
            \/ attempts[k].at + WarningSeconds \in clears /\ clock >= attempts[k].at + WarningSeconds
  /\ timers \cup clears = ClearTimes
  /\ showPIIWarning => timers /= {}

\* a white-space message was not submitted, a message with PII was, and its
\* warning has been cleared after 5 seconds
C20_Witness ==
  /\ Len(attempts) = 2
  /\ attempts[1].text /= <<>>
  /\ trim(attempts[1].text) = <<>>
  /\ attempts[2].pii
  /\ submitted = <<trim(attempts[2].text)>>
  /\ attempts[2].at + WarningSeconds \in clears
  /\ ~showPIIWarning

(***************************************************************************)
(* The session locale route, src/unnamed/part_001 lines 1-73.  A handler   *)
(* has no await after request.json(), so each request is one step.         *)
(***************************************************************************)
\* most POSTs handled in a behaviour
MaxPosts == 2

\* src/client/lib/i18n/config.ts lines 7-13: code and dir of each option
languageOptions ==
  <<[code |-> "en", dir |-> "ltr"], [code |-> "es", dir |-> "ltr"],
    [code |-> "ar", dir |-> "rtl"], [code |-> "zh", dir |-> "ltr"],
    [code |-> "pt", dir |-> "ltr"]>>

\* config.ts lines 15-17: find, else the first option
getLanguageOption(code) ==
  IF \E i \in DOMAIN languageOptions : Str(languageOptions[i].code) = code
    THEN LET i == CHOOSE i \in DOMAIN languageOptions :
                    /\ Str(languageOptions[i].code) = code
                    /\ \A j \in 1..(i - 1) : Str(languageOptions[j].code) /= code
         IN languageOptions[i]
    ELSE languageOptions[1]

\* a configuration in which every language is written left to right
getTextDirectionLtr(code) == "ltr"

\* config.ts lines 19-21
getTextDirection(code) == getLanguageOption(code).dir

\* Map.prototype.set, Map.prototype.get
MapSet(map, key, value) ==
  [k \in DOMAIN map \cup {key} |-> IF k = key THEN value ELSE map[k]]
MapGet(map, key) == IF key \in DOMAIN map THEN map[key] ELSE Undefined

\* the two kinds of response body
LocaleResponse(code, dir) ==
  [status |-> 200, body |-> [ok |-> TRUE, locale |-> code, dir |-> dir]]
ErrorResponse(status, error) == [status |-> status, body |-> [error |-> error]]

\* a route that stores the locale before it validates it
sessionPostStoreFirst(map, body) ==
  IF body.t = "notjson" \/ Nullish(body)
    THEN [out |-> ErrorResponse(500, "Internal server error"), map |-> map]
  ELSE IF ~(body.locale.t = "string" /\ body.locale.s \in validLocales)
    THEN [out |-> ErrorResponse(400, "Invalid locale"),
          map |-> MapSet(map, body.sessionId, body.locale)]
  ELSE [out |-> LocaleResponse(body.locale, getTextDirection(body.locale)),
        map |-> MapSet(map, body.sessionId, body.locale)]

\* lines 9-42: the response to a POST and the Map after it
sessionPostResult(map, body) ==
  IF body.t = "notjson" \/ Nullish(body)
    THEN [out |-> ErrorResponse(500, "Internal server error"), map |-> map]
  ELSE IF ~(body.locale.t = "string" /\ body.locale.s \in validLocales)
    THEN [out |-> ErrorResponse(400, "Invalid locale"), map |-> map]
  ELSE [out |-> LocaleResponse(body.locale, getTextDirection(body.locale)),
        map |-> MapSet(map, body.sessionId, body.locale)]

\* a route that keeps one locale for all sessions
sessionGetShared(map, sessionId) ==
  IF ~Truthy(sessionId) THEN ErrorResponse(400, "Session ID required")
  ELSE LET code == IF DOMAIN map = {} THEN Str("en")
                   ELSE map[CHOOSE k \in DOMAIN map : TRUE]
       IN LocaleResponse(code, getTextDirection(code))

\* lines 44-73: the response to a GET; searchParams.get gives a string or null
sessionGetResult(map, sessionId) ==
  IF ~Truthy(sessionId) THEN ErrorResponse(400, "Session ID required")
  ELSE LET code == Or(MapGet(map, sessionId), Str("en"))
       IN LocaleResponse(code, getTextDirection(code))

\* what a client can send
SessionIds == {Str(""), Str("s1"), Str("s2")}
SessionLocaleInputs ==
  {Str(c) : c \in validLocales} \cup {Undefined, Str("fr")}
SessionBodies ==
  {NotJson, Null}
    \cup [t : {"body"}, sessionId : SessionIds, locale : SessionLocaleInputs]
SessionQueries == {Null} \cup SessionIds

InitSession ==
  /\ env \in {e \in Environments : ~Construct(e).threw}
  /\ service = Undefined
  /\ pc = "new"
  /\ call = Undefined
  /\ request = Undefined
  /\ posts = 0
  /\ response = Undefined
  /\ raised = Undefined
  /\ outcome = Pending
  /\ calls = NoCalls
  /\ RouteIdle
  /\ SessionIdle
  /\ InterfaceUnmounted
  /\ PanelUnmounted
  /\ ComposerUnmounted

\* lines 9-42
sessionPOST ==
  /\ Len(posted) < MaxPosts
  /\ \E body \in SessionBodies :
       /\ sessionIn' = [t |-> "request", method |-> "POST", body |-> body]
       /\ sessionOut' = sessionPostResult(sessionLocales, body).out
       /\ sessionLocales' = sessionPostResult(sessionLocales, body).map
       /\ posted' = Append(posted,
                      [body |-> body, before |-> sessionLocales,
                       out |-> sessionPostResult(sessionLocales, body).out])
  /\ UNCHANGED outsideSession

\* lines 44-73
sessionGET ==
  /\ \E sessionId \in SessionQueries :
       /\ sessionIn' = [t |-> "request", method |-> "GET", sessionId |-> sessionId]
       /\ sessionOut' = sessionGetResult(sessionLocales, sessionId)
  /\ UNCHANGED <<sessionLocales, posted, outsideSession>>

NextSession == sessionPOST \/ sessionGET

SpecSession == InitSession /\ [][NextSession]_vars

\* the Map as the i-th POST left it
MapAfter(i) == IF i < Len(posted) THEN posted[i + 1].before ELSE sessionLocales
SupportedLocales == {Str(c) : c \in validLocales}
IsSupportedPost(p) == p.body.t = "body" /\ p.body.locale \in SupportedLocales
IsUnsupportedPost(p) == p.body.t = "body" /\ p.body.locale \notin SupportedLocales
DirOf(code) == IF code = Str("ar") THEN "rtl" ELSE "ltr"

\* C21: a POST with a supported locale stores that locale under the given
\* session id and is answered { ok: true, locale, dir } with the same locale,
\* dir being 'rtl' for 'ar' and 'ltr' for en, es, zh and pt.
C21_PostStoresAndAnswers ==
  \A i \in DOMAIN posted :
    IsSupportedPost(posted[i]) =>
      /\ posted[i].out =
           [status |-> 200,
            body |-> [ok |-> TRUE, locale |-> posted[i].body.locale,
                      dir |-> DirOf(posted[i].body.locale)]]
      /\ posted[i].body.sessionId \in DOMAIN MapAfter(i)
      /\ MapAfter(i)[posted[i].body.sessionId] = posted[i].body.locale

\* 'ar' has been posted for one session and 'pt' for another
C21_Witness ==
  /\ Len(posted) = 2
  /\ posted[1].body.t = "body" /\ posted[1].body.locale = Str("ar")
  /\ posted[1].out.status = 200 /\ posted[1].out.body.dir = "rtl"
  /\ posted[2].body.t = "body" /\ posted[2].body.locale = Str("pt")
  /\ posted[2].body.sessionId /= posted[1].body.sessionId
  /\ posted[2].out.status = 200 /\ posted[2].out.body.dir = "ltr"

\* C24: a POST whose locale is not one of the five is answered with status
\* 400 and leaves the Map as it was; every locale in the Map is one of the
\* five.
C24_UnsupportedRejected ==
  /\ \A i \in DOMAIN posted :
       IsUnsupportedPost(posted[i]) =>
         /\ posted[i].out.status = 400
         /\ MapAfter(i) = posted[i].before
  /\ \A k \in DOMAIN sessionLocales : sessionLocales[k] \in SupportedLocales

\* 'fr' was posted for a session that holds a locale, and was turned down
C24_Witness ==
  /\ Len(posted) = 2
  /\ IsSupportedPost(posted[1])
  /\ IsUnsupportedPost(posted[2])
  /\ posted[2].body.locale = Str("fr")
  /\ posted[2].body.sessionId = posted[1].body.sessionId
  /\ posted[2].out.status = 400
  /\ sessionLocales[posted[1].body.sessionId] = posted[1].body.locale

\* the POSTs for a session id that were answered with { ok: true, ... }
Succeeded(sessionId) ==
  {i \in DOMAIN posted : /\ posted[i].body.t = "body"
                         /\ posted[i].body.sessionId = sessionId
                         /\ posted[i].out.status = 200}
\* what the store should answer for a session id
Expected(sessionId) ==
  LET code == IF Succeeded(sessionId) = {} THEN Str("en")
              ELSE posted[CHOOSE i \in Succeeded(sessionId) :
                            \A j \in Succeeded(sessionId) : j <= i].body.locale
  IN [status |-> 200, body |-> [ok |-> TRUE, locale |-> code, dir |-> DirOf(code)]]

\* C25 as stated: a GET with any sessionId parameter s is answered with the
\* locale of the most recent successful POST for s, or 'en'/'ltr', and a GET
\* without the parameter with status 400.
C25_GetReturnsLastPosted ==
  (sessionIn.t = "request" /\ sessionIn.method = "GET") =>
    IF sessionIn.sessionId = Null THEN sessionOut.status = 400
    ELSE sessionOut = Expected(sessionIn.sessionId)

\* C25: a GET with a non-empty sessionId s is answered with the locale of the
\* most recent successful POST for s and the matching dir, or 'en'/'ltr' when
\* there is none, whatever was posted for other ids; a GET without sessionId,
\* or with an empty one, is answered with status 400.
C25_GetReturnsLastPostedNonEmpty ==
  (sessionIn.t = "request" /\ sessionIn.method = "GET") =>
    IF sessionIn.sessionId \in {Null, Str("")} THEN sessionOut.status = 400
    ELSE sessionOut = Expected(sessionIn.sessionId)

\* s1 was given 'zh', then s2 was given 'ar', and a GET for s1 says 'zh'
C25_Witness ==
  /\ Len(posted) = 2
  /\ posted[1].body.t = "body" /\ posted[1].out.status = 200
  /\ posted[1].body.sessionId = Str("s1") /\ posted[1].body.locale = Str("zh")
  /\ posted[2].body.t = "body" /\ posted[2].out.status = 200
  /\ posted[2].body.sessionId = Str("s2") /\ posted[2].body.locale = Str("ar")
  /\ sessionIn.t = "request" /\ sessionIn.method = "GET"
  /\ sessionIn.sessionId = Str("s1")
  /\ sessionOut.status = 200 /\ sessionOut.body.locale = Str("zh")

(***************************************************************************)
(* The chat route's locale and intent.                                     *)
(***************************************************************************)
\* the handler has passed the lookup of line 657
LookedUp == chatPc \in {"delay", "responded"} /\ chatLocals /= Undefined

\* the locale a request asks for, by the precedence header, meta.locale, 'en'
AskedLocale(headerGiven) ==
  LET asked == IF headerGiven THEN chatIn.header
               ELSE IF Get(chatIn.body.meta, "locale") /= Undefined
                 THEN Get(chatIn.body.meta, "locale")
               ELSE Str("en")
  IN IF asked \in SupportedLocales THEN asked.s ELSE "en"

\* C22 as stated: the locale of the lookup is one of the five, it is the
\* X-Locale header whenever the header is present, else meta.locale, else
\* 'en', with 'en' for any unsupported value, and no request fails on it.
C22_LocaleFromHeaderIfPresent ==
  LookedUp =>
    /\ chatLocals.locale \in validLocales
    /\ chatLocals.locale = AskedLocale(chatIn.header /= Null)

\* C22: the locale of the lookup is one of the five: it is the X-Locale
\* header when the header is present and not empty, else meta.locale, else
\* 'en', with 'en' for any unsupported value; a request is answered with
\* status 500 only when its body is not a JSON object or its text is not a
\* string, whatever the header and meta.locale are.
C22_FinalLocaleSupported ==
  /\ LookedUp =>
       /\ chatLocals.locale \in validLocales
       /\ chatLocals.locale = AskedLocale(chatIn.header \notin {Null, Str("")})
  /\ (chatPc = "responded" /\ chatOut.status = 500) =>
       \/ chatIn.body.t /= "body"
       \/ (~Truthy(chatIn.body.intent) /\ chatIn.body.text.t = "number")

\* an unsupported header over a supported meta.locale: 'en' is used and the
\* request is answered
C22_Witness ==
  /\ chatPc = "responded"
  /\ chatIn.header = Str("fr")
  /\ chatIn.body.t = "body"
  /\ Get(chatIn.body.meta, "locale") = Str("zh")
  /\ chatLocals /= Undefined
  /\ chatLocals.locale = "en"
  /\ chatOut.status = 200

\* the intent a request asks for: the supplied one, else the one its text
\* gives, else 'unknown'
AskedIntent ==
  IF Truthy(chatIn.body.intent) THEN chatIn.body.intent
  ELSE IF Truthy(chatIn.body.text) THEN determineIntent(chatIn.body.text).value
  ELSE Str("unknown")

\* the table's entry for a locale and an intent, 'unknown' standing in for
\* an intent the table does not list
TableEntry(lang, intent) ==
  IF intent.s \in DOMAIN mockResponses[lang].props
    THEN mockResponses[lang].props[intent.s]
    ELSE mockResponses[lang].props["unknown"]

\* C23: a request that is answered with status 200 gets the table's messages
\* for the final locale and the final intent (the supplied intent, else the
\* intent inferred from the text, else 'unknown'), the locale's 'unknown'
\* messages when the table has no entry for the intent, and the response's
\* intent field is the final intent.
C23_CannedResponseByKey ==
  (chatPc = "responded" /\ chatOut.status = 200) =>
    /\ chatOut.body.intent = AskedIntent
    /\ chatOut.body.messages = TableEntry(chatLocals.locale, AskedIntent)

\* the groups by decreasing priority, and the keywords of a group
Priority == <<"screening", "scheduling", "costs", "aya", "wayfinding", "glossary">>
GroupWords(intent) ==
  IntentKeywords[CHOOSE k \in DOMAIN IntentKeywords :
                   IntentKeywords[k].intent = intent].words
\* two characters that are the same letter in either case
SameLetter(a, b) ==
  a = b \/ \E k \in DOMAIN UpperCase :
             {a, b} = {UpperCase[k], LowerCase[k]}
\* the word occurs in the text, whatever the case of the text's letters
Occurs(chars, word) ==
  \E i \in 0..(Len(chars) - Len(word)) :
    \A j \in 1..Len(word) : SameLetter(chars[i + j], word[j])
Mentions(chars, intent) == \E word \in GroupWords(intent) : Occurs(chars, word)
\* the highest-priority group one of whose keywords occurs, else 'unknown'
Classified(chars) ==
  IF \E k \in DOMAIN Priority : Mentions(chars, Priority[k])
    THEN Priority[CHOOSE k \in DOMAIN Priority :
                    /\ Mentions(chars, Priority[k])
                    /\ \A h \in 1..(k - 1) : ~Mentions(chars, Priority[h])]
    ELSE "unknown"
\* the route has called determineIntent on the request's text
Inferred ==
  /\ LookedUp
  /\ ~Truthy(chatIn.body.intent)
  /\ chatIn.body.text.t = "text"
  /\ chatIn.body.text.chars /= <<>>

\* C26: determineIntent gives a text the highest-priority group, in the
\* order screening, scheduling, costs, aya, wayfinding, glossary, one of
\* whose keywords occurs in it in any case, and 'unknown' when none occurs.
C26_FirstKeywordGroupWins ==
  Inferred => chatLocals.intent = Str(Classified(chatIn.body.text.chars))

\* 'book a TEST' has a scheduling and a screening keyword and is classified
\* as screening
C26_Witness ==
  /\ Inferred
  /\ Mentions(chatIn.body.text.chars, "scheduling")
  /\ Mentions(chatIn.body.text.chars, "screening")
  /\ ~includes(chatIn.body.text.chars, <<"t", "e", "s", "t">>)
  /\ chatLocals.intent = Str("screening")

(***************************************************************************)
(* ChatInterface (src/client/components/ChatInterface.tsx).  A handler     *)
(* runs to its first await in one step; each continuation after an await   *)
(* or a timer is a step of its own.  The chat backend is outside the       *)
(* component: a request settles with a message, without one, or fails.     *)
(* The sidebar is taken to be visible.                                     *)
(***************************************************************************)
\* most identifiers generateId gives out in a behaviour
MaxIds == 4
\* most language selections under way at once
MaxSelections == 1

\* a message of the list
Message(id, role, content) == [id |-> id, role |-> role, content |-> content]

\* the awaits and the timers of the component
ChatRequest == [kind |-> "chat", value |-> "none"]
BannerTimer == [kind |-> "banner", value |-> "none"]
ToastTimer == [kind |-> "toast", value |-> "none"]
Selection(stage, value) == [kind |-> stage, value |-> value]
SelectionStages == {"persist", "locale", "welcome"}
Selections ==
  {task \in BagToSet(running) : task.kind \in SelectionStages}
Start(task) == running (+) SetToBag({task})
Finish(task) == running (-) SetToBag({task})

\* lines 93-111: the effect that copies the list into the current session
UpdateSession(sessions, current, list) ==
  IF current /= 0 /\ list /= <<>>
    THEN [i \in DOMAIN sessions |->
            IF sessions[i].id = current
              THEN [sessions[i] EXCEPT !.messages = list]
              ELSE sessions[i]]
    ELSE sessions

\* what the user types
Inputs == {<<>>, <<" ">>, <<"h", "i">>, <<"a", "@", "b", ".", "c", "o">>}
\* the language buttons the user clicks: English and Arabic
Clicked == {i \in DOMAIN languageOptions : languageOptions[i].code \in {"en", "ar"}}
\* how a chat request settles
Settlements == {"message", "empty", "failed"}

\* lines 28-78: the component mounted on a fresh store in an English browser,
\* its first session created
InitInterface ==
  /\ env \in {e \in Environments : ~Construct(e).threw}
  /\ service = Undefined
  /\ pc = "new"
  /\ posts = 0
  /\ call = Undefined
  /\ request = Undefined
  /\ response = Undefined
  /\ raised = Undefined
  /\ outcome = Pending
  /\ calls = NoCalls
  /\ RouteIdle
  /\ SessionIdle
  /\ ComposerUnmounted
  /\ PanelUnmounted
  /\ messageList = <<>>
  /\ showWelcomeCard = TRUE
  /\ input = <<>>
  /\ chatSessions = <<[id |-> 1, messages |-> <<>>]>>
  /\ currentSessionId = 1
  /\ showPIIBanner = FALSE
  /\ showToast = Null
  /\ running = EmptyBag
  /\ ids = 1

\* line 653: onChange of the field, which is disabled while loading
setInput ==
  /\ ~showWelcomeCard
  /\ ~isLoading
  /\ \E value \in Inputs : input' = value
  /\ UNCHANGED <<locale, isLoading, messageList, showWelcomeCard, chatSessions,
                 currentSessionId, showPIIBanner, showToast, running, ids,
                 outsideInterface>>

\* lines 263-289: handleSubmit up to the fetch
handleSubmitForm ==
  /\ ~showWelcomeCard
  /\ IF trim(input) = <<>> \/ isLoading
       THEN UNCHANGED <<isLoading, messageList, input, chatSessions,
                        showPIIBanner, running, ids>>
       ELSE /\ ids < MaxIds
            /\ IF containsEmail(input) \/ containsPhone(input)
                 THEN /\ showPIIBanner' = TRUE
                      /\ running' = Start(BannerTimer) (+) SetToBag({ChatRequest})
                 ELSE /\ UNCHANGED showPIIBanner
                      /\ running' = Start(ChatRequest)
            /\ ids' = ids + 1
            /\ messageList' =
                 Append(messageList, Message(ids + 1, "user", Txt(trim(input))))
            /\ input' = <<>>
            /\ isLoading' = TRUE
            /\ chatSessions' =
                 UpdateSession(chatSessions, currentSessionId, messageList')
  /\ UNCHANGED <<locale, showWelcomeCard, currentSessionId, showToast,
                 outsideInterface>>

\* lines 199-214: handleQuickIntent up to the fetch; the row of buttons is
\* rendered when the chat card is shown and the list is not empty (line 593)
handleQuickIntent ==
  /\ ~showWelcomeCard
  /\ messageList /= <<>>
  /\ ids < MaxIds
  /\ isLoading' = TRUE
  /\ ids' = ids + 1
  /\ messageList' = Append(messageList, Message(ids + 1, "user", Str("prompt")))
  /\ running' = Start(ChatRequest)
  /\ chatSessions' = UpdateSession(chatSessions, currentSessionId, messageList')
  /\ UNCHANGED <<locale, showWelcomeCard, input, currentSessionId,
                 showPIIBanner, showToast, outsideInterface>>

\* lines 229-260 and 304-335: the fetch of a chat request has settled
chatRequestSettled ==
  /\ BagIn(ChatRequest, running)
  /\ \E settlement \in Settlements :
       IF settlement = "empty"
         THEN UNCHANGED <<messageList, ids, chatSessions>>
         ELSE /\ ids < MaxIds
              /\ ids' = ids + 1
              /\ messageList' =
                   Append(messageList,
                          Message(ids + 1, "assistant",
                                  IF settlement = "message" THEN Str("reply")
                                  ELSE Str("error")))
              /\ chatSessions' =
                   UpdateSession(chatSessions, currentSessionId, messageList')
  /\ isLoading' = FALSE
  /\ running' = Finish(ChatRequest)
  /\ UNCHANGED <<locale, showWelcomeCard, input, currentSessionId,
                 showPIIBanner, showToast, outsideInterface>>

\* lines 161-163 and 140-145: a language button of the welcome card
handleWelcomeAction ==
  /\ showWelcomeCard
  /\ Cardinality(Selections) < MaxSelections
  /\ \E option \in Clicked :
       /\ locale' = languageOptions[option].code
       /\ running' = Start(Selection("persist", languageOptions[option].code))
  /\ UNCHANGED <<isLoading, messageList, showWelcomeCard, input, chatSessions,
                 currentSessionId, showPIIBanner, showToast, ids,
                 outsideInterface>>

\* lines 113-116 and 146-154: after the 100 ms, the toast and the fetch
showLanguageToast ==
  /\ \E task \in Selections :
       /\ task.kind = "persist"
       /\ showToast' = Str(task.value)
       /\ running' = (Finish(task) (+) SetToBag({ToastTimer}))
                       (+) SetToBag({Selection("locale", task.value)})
  /\ UNCHANGED <<locale, isLoading, messageList, showWelcomeCard, input,
                 chatSessions, currentSessionId, showPIIBanner, ids,
                 outsideInterface>>

\* lines 155-168: the fetch has settled either way; the card is collapsed
welcomeCardCollapsed ==
  /\ \E task \in Selections :
       /\ task.kind = "locale"
       /\ running' = Finish(task) (+) SetToBag({Selection("welcome", task.value)})
  /\ showWelcomeCard' = FALSE
  /\ isLoading' = TRUE
  /\ UNCHANGED <<locale, messageList, input, chatSessions, currentSessionId,
                 showPIIBanner, showToast, ids, outsideInterface>>

\* lines 169-182: the 800 ms timer
welcomeTimeout ==
  /\ ids < MaxIds
  /\ \E task \in Selections :
       /\ task.kind = "welcome"
       /\ running' = Finish(task)
       /\ messageList' = <<Message(ids + 1, "assistant", Str(task.value))>>
  /\ ids' = ids + 1
  /\ isLoading' = FALSE
  /\ chatSessions' = UpdateSession(chatSessions, currentSessionId, messageList')
  /\ UNCHANGED <<locale, showWelcomeCard, input, currentSessionId,
                 showPIIBanner, showToast, outsideInterface>>

\* line 115: the 3 s timer of a toast
toastTimeout ==
  /\ BagIn(ToastTimer, running)
  /\ running' = Finish(ToastTimer)
  /\ showToast' = Null
  /\ UNCHANGED <<locale, isLoading, messageList, showWelcomeCard, input,
                 chatSessions, currentSessionId, showPIIBanner, ids,
                 outsideInterface>>

\* line 273: the 8 s timer of a banner
bannerTimeout ==
  /\ BagIn(BannerTimer, running)
  /\ running' = Finish(BannerTimer)
  /\ showPIIBanner' = FALSE
  /\ UNCHANGED <<locale, isLoading, messageList, showWelcomeCard, input,
                 chatSessions, currentSessionId, showToast, ids,
                 outsideInterface>>

\* line 639: the banner's close button
dismissBanner ==
  /\ ~showWelcomeCard
  /\ showPIIBanner
  /\ showPIIBanner' = FALSE
  /\ UNCHANGED <<locale, isLoading, messageList, showWelcomeCard, input,
                 chatSessions, currentSessionId, showToast, running, ids,
                 outsideInterface>>

\* line 540: 'Prefer to type instead?'
preferToType ==
  /\ showWelcomeCard
  /\ showWelcomeCard' = FALSE
  /\ UNCHANGED <<locale, isLoading, messageList, input, chatSessions,
                 currentSessionId, showPIIBanner, showToast, running, ids,
                 outsideInterface>>

\* line 478: the 'Change' button next to the language's name
changeLanguage ==
  /\ ~showWelcomeCard
  /\ showWelcomeCard' = TRUE
  /\ UNCHANGED <<locale, isLoading, messageList, input, chatSessions,
                 currentSessionId, showPIIBanner, showToast, running, ids,
                 outsideInterface>>

\* lines 118-128
createNewChat ==
  /\ ids < MaxIds
  /\ ids' = ids + 1
  /\ currentSessionId' = ids + 1
  /\ messageList' = <<>>
  /\ showWelcomeCard' = TRUE
  /\ input' = <<>>
  /\ chatSessions' = UpdateSession(chatSessions, currentSessionId', messageList')
  /\ UNCHANGED <<locale, isLoading, showPIIBanner, showToast, running,
                 outsideInterface>>

\* lines 130-138
switchToSession ==
  /\ \E i \in DOMAIN chatSessions :
       /\ currentSessionId' = chatSessions[i].id
       /\ messageList' = chatSessions[i].messages
       /\ showWelcomeCard' = (Len(chatSessions[i].messages) = 0)
  /\ chatSessions' = UpdateSession(chatSessions, currentSessionId', messageList')
  /\ UNCHANGED <<locale, isLoading, input, showPIIBanner, showToast, running,
                 ids, outsideInterface>>

NextInterface ==
  \/ setInput
  \/ handleSubmitForm
  \/ handleQuickIntent
  \/ chatRequestSettled
  \/ handleWelcomeAction
  \/ showLanguageToast
  \/ welcomeCardCollapsed
  \/ welcomeTimeout
  \/ toastTimeout
  \/ bannerTimeout
  \/ dismissBanner
  \/ preferToType
  \/ changeLanguage
  \/ createNewChat
  \/ switchToSession

SpecInterface == InitInterface /\ [][NextInterface]_vars

\* the list before a step is the beginning of the list after it
Grows == /\ Len(messageList) <= Len(messageList')
         /\ SubSeq(messageList', 1, Len(messageList)) = messageList

\* C27: isLoading is true whenever a chat request is awaiting its response,
\* and at most one chat request is awaiting its response.
C27_LoadingWhileRequestInFlight ==
  /\ BagIn(ChatRequest, running) => isLoading
  /\ CopiesIn(ChatRequest, running) <= 1

\* C28: apart from createNewChat and switchToSession, no step removes or
\* replaces a message of the list.
C28_MessageListOnlyGrows ==
  [][createNewChat \/ switchToSession \/ Grows]_vars

=============================================================================
